---- MODULE Spec2Model ----
(***************************************************************************)
(* Model of the code-intelligence engine of professional_code_analyzer.py  *)
(* (CodeIntelligenceEngine, its four visitor passes and the quality        *)
(* scorer), of the tool functions that wrap it and of analyze_python of    *)
(* minimal_code_server.py.                                                 *)
(*                                                                         *)
(* A source file is modelled by its syntax tree: the sequence of its       *)
(* nodes in depth-first pre-order (the order ast.NodeVisitor visits them), *)
(* each with the index of its parent.  Sub-trees that hold none of the     *)
(* node classes the analyzers test for are left out; the identifiers they  *)
(* carry are folded into the fields of the nearest node kept.              *)
(***************************************************************************)
EXTENDS Integers, Sequences, FiniteSets, TLC

(***************************************************************************)
(* Syntax-tree nodes.                                                      *)
(*   kind     class name of the ast node                                   *)
(*   parent   index of the parent node, 0 for the Module                   *)
(*   line, endline   lineno / end_lineno                                   *)
(*   name     FunctionDef/ClassDef name, or the callee of a Call           *)
(*   nchars   the characters of a FunctionDef/ClassDef name                *)
(*            or of the targets of an Assign as written in the source      *)
(*   params   len(args.args) of a function, len(bases) of a class          *)
(*   bare     ExceptHandler with type None                                 *)
(*   callee   "id" when Call.func has an id, "attr" when it has an attr    *)
(*   op       operator class of a BinOp                                    *)
(*   strlen   length of the str constant assigned by an Assign, else -1    *)
(*   targets  characters of str(node.targets).lower() of an Assign         *)
(*   doc      ast.get_docstring(node) is not None                          *)
(*   inst     an identifier or string written on the node holds 'instance' *)
(*   deep     expression nested deeper than the interpreter's recursion    *)
(*            limit: a NodeVisitor that descends into it raises            *)
(***************************************************************************)
Nd(kind, parent, line, endline, name, nchars, params, bare, callee, op, strlen, targets, doc, inst, deep) ==
  [kind |-> kind, parent |-> parent, line |-> line, endline |-> endline,
   name |-> name, nchars |-> nchars, params |-> params, bare |-> bare,
   callee |-> callee, op |-> op, strlen |-> strlen, targets |-> targets,
   doc |-> doc, inst |-> inst, deep |-> deep]

(***************************************************************************)
(* The source files the model analyses, as parsed by ast.parse.            *)
(***************************************************************************)
\* Clean: # adds two numbers | def add(a, b): |     return a + b |  | def load(p, q): |     with open(p) as f: |         data = f.read() or q |     async def pump(s): |         async for x in s: |             async with x: |                 pass |     return data | 
FileClean ==
  << Nd("Module", 0, 0, 0, "", <<>>, 0, FALSE, "none", "", -1, <<>>, FALSE, FALSE, FALSE),
     Nd("FunctionDef", 1, 2, 3, "add", <<"a","d","d">>, 2, FALSE, "none", "", -1, <<>>, FALSE, FALSE, FALSE),
     Nd("Return", 2, 3, 3, "", <<>>, 0, FALSE, "none", "", -1, <<>>, FALSE, FALSE, FALSE),
     Nd("BinOp", 3, 3, 3, "", <<>>, 0, FALSE, "none", "Add", -1, <<>>, FALSE, FALSE, FALSE),
     Nd("FunctionDef", 1, 5, 12, "load", <<"l","o","a","d">>, 2, FALSE, "none", "", -1, <<>>, FALSE, FALSE, FALSE),
     Nd("With", 5, 6, 7, "", <<>>, 0, FALSE, "none", "", -1, <<>>, FALSE, FALSE, FALSE),
     Nd("withitem", 6, 0, 0, "", <<>>, 0, FALSE, "none", "", -1, <<>>, FALSE, FALSE, FALSE),
     Nd("Call", 7, 6, 6, "open", <<>>, 0, FALSE, "id", "", -1, <<>>, FALSE, FALSE, FALSE),
     Nd("Assign", 6, 7, 7, "", <<"d","a","t","a">>, 0, FALSE, "none", "", -1, <<"[","<","a","s","t",".","n","a","m","e"," ","o","b","j","e","c","t",">","]">>, FALSE, FALSE, FALSE),
     Nd("BoolOp", 9, 7, 7, "", <<>>, 0, FALSE, "none", "", -1, <<>>, FALSE, FALSE, FALSE),
     Nd("Or", 10, 0, 0, "", <<>>, 0, FALSE, "none", "", -1, <<>>, FALSE, FALSE, FALSE),
     Nd("Call", 10, 7, 7, "read", <<>>, 0, FALSE, "attr", "", -1, <<>>, FALSE, FALSE, FALSE),
     Nd("AsyncFunctionDef", 5, 8, 11, "pump", <<"p","u","m","p">>, 1, FALSE, "none", "", -1, <<>>, FALSE, FALSE, FALSE),
     Nd("AsyncFor", 13, 9, 11, "", <<>>, 0, FALSE, "none", "", -1, <<>>, FALSE, FALSE, FALSE),
     Nd("AsyncWith", 14, 10, 11, "", <<>>, 0, FALSE, "none", "", -1, <<>>, FALSE, FALSE, FALSE),
     Nd("Return", 5, 12, 12, "", <<>>, 0, FALSE, "none", "", -1, <<>>, FALSE, FALSE, FALSE) >>

LinesClean ==
  << "comment", "code", "code", "blank", "code", "code", "code", "code", "code", "code", "code", "code", "blank" >>

\* Getter: def get_value(self): |     self.x = 1 |  | def get_name(self): |     return self.n |  | async def get_data(self): |     self.y = 2 | 
FileGetter ==
  << Nd("Module", 0, 0, 0, "", <<>>, 0, FALSE, "none", "", -1, <<>>, FALSE, FALSE, FALSE),
     Nd("FunctionDef", 1, 1, 2, "get_value", <<"g","e","t","_","v","a","l","u","e">>, 1, FALSE, "none", "", -1, <<>>, FALSE, FALSE, FALSE),
     Nd("Assign", 2, 2, 2, "", <<"s","e","l","f",".","x">>, 0, FALSE, "none", "", -1, <<"[","<","a","s","t",".","a","t","t","r","i","b","u","t","e"," ","o","b","j","e","c","t",">","]">>, FALSE, FALSE, FALSE),
     Nd("FunctionDef", 1, 4, 5, "get_name", <<"g","e","t","_","n","a","m","e">>, 1, FALSE, "none", "", -1, <<>>, FALSE, FALSE, FALSE),
     Nd("Return", 4, 5, 5, "", <<>>, 0, FALSE, "none", "", -1, <<>>, FALSE, FALSE, FALSE),
     Nd("AsyncFunctionDef", 1, 7, 8, "get_data", <<"g","e","t","_","d","a","t","a">>, 1, FALSE, "none", "", -1, <<>>, FALSE, FALSE, FALSE),
     Nd("Assign", 6, 8, 8, "", <<"s","e","l","f",".","y">>, 0, FALSE, "none", "", -1, <<"[","<","a","s","t",".","a","t","t","r","i","b","u","t","e"," ","o","b","j","e","c","t",">","]">>, FALSE, FALSE, FALSE) >>

LinesGetter ==
  << "code", "code", "blank", "code", "code", "blank", "code", "code", "blank" >>

\* Evals: a = eval(s) | exec(s) | print(eval(eval(s))) |  | def run(s): |     exec(eval(s)) |  | class K: |     def m(self, o): |         for i in o ... , c, d, e, f): |     pass |  | def p5(a, b, c, d, e, f): |     pass | 
FileEvals ==
  << Nd("Module", 0, 0, 0, "", <<>>, 0, FALSE, "none", "", -1, <<>>, FALSE, FALSE, FALSE),
     Nd("Assign", 1, 1, 1, "", <<"a">>, 0, FALSE, "none", "", -1, <<"[","<","a","s","t",".","n","a","m","e"," ","o","b","j","e","c","t",">","]">>, FALSE, FALSE, FALSE),
     Nd("Call", 2, 1, 1, "eval", <<>>, 0, FALSE, "id", "", -1, <<>>, FALSE, FALSE, FALSE),
     Nd("Expr", 1, 2, 2, "", <<>>, 0, FALSE, "none", "", -1, <<>>, FALSE, FALSE, FALSE),
     Nd("Call", 4, 2, 2, "exec", <<>>, 0, FALSE, "id", "", -1, <<>>, FALSE, FALSE, FALSE),
     Nd("Expr", 1, 3, 3, "", <<>>, 0, FALSE, "none", "", -1, <<>>, FALSE, FALSE, FALSE),
     Nd("Call", 6, 3, 3, "print", <<>>, 0, FALSE, "id", "", -1, <<>>, FALSE, FALSE, FALSE),
     Nd("Call", 7, 3, 3, "eval", <<>>, 0, FALSE, "id", "", -1, <<>>, FALSE, FALSE, FALSE),
     Nd("Call", 8, 3, 3, "eval", <<>>, 0, FALSE, "id", "", -1, <<>>, FALSE, FALSE, FALSE),
     Nd("FunctionDef", 1, 5, 6, "run", <<"r","u","n">>, 1, FALSE, "none", "", -1, <<>>, FALSE, FALSE, FALSE),
     Nd("Expr", 10, 6, 6, "", <<>>, 0, FALSE, "none", "", -1, <<>>, FALSE, FALSE, FALSE),
     Nd("Call", 11, 6, 6, "exec", <<>>, 0, FALSE, "id", "", -1, <<>>, FALSE, FALSE, FALSE),
     Nd("Call", 12, 6, 6, "eval", <<>>, 0, FALSE, "id", "", -1, <<>>, FALSE, FALSE, FALSE),
     Nd("ClassDef", 1, 8, 12, "K", <<"K">>, 0, FALSE, "none", "", -1, <<>>, FALSE, FALSE, FALSE),
     Nd("FunctionDef", 14, 9, 12, "m", <<"m">>, 2, FALSE, "none", "", -1, <<>>, FALSE, FALSE, FALSE),
     Nd("For", 15, 10, 11, "", <<>>, 0, FALSE, "none", "", -1, <<>>, FALSE, FALSE, FALSE),
     Nd("Expr", 16, 11, 11, "", <<>>, 0, FALSE, "none", "", -1, <<>>, FALSE, FALSE, FALSE),
     Nd("Call", 17, 11, 11, "eval", <<>>, 0, FALSE, "id", "", -1, <<>>, FALSE, FALSE, FALSE),
     Nd("Expr", 15, 12, 12, "", <<>>, 0, FALSE, "none", "", -1, <<>>, FALSE, FALSE, FALSE),
     Nd("Call", 19, 12, 12, "eval", <<>>, 0, FALSE, "attr", "", -1, <<>>, FALSE, FALSE, FALSE),
     Nd("FunctionDef", 1, 14, 26, "p0", <<"p","0">>, 6, FALSE, "none", "", -1, <<>>, FALSE, FALSE, FALSE),
     Nd("If", 21, 15, 16, "", <<>>, 0, FALSE, "none", "", -1, <<>>, FALSE, FALSE, FALSE),
     Nd("Assign", 22, 16, 16, "", <<"b">>, 0, FALSE, "none", "", -1, <<"[","<","a","s","t",".","n","a","m","e"," ","o","b","j","e","c","t",">","]">>, FALSE, FALSE, FALSE),
     Nd("If", 21, 17, 18, "", <<>>, 0, FALSE, "none", "", -1, <<>>, FALSE, FALSE, FALSE),
     Nd("Assign", 24, 18, 18, "", <<"b">>, 0, FALSE, "none", "", -1, <<"[","<","a","s","t",".","n","a","m","e"," ","o","b","j","e","c","t",">","]">>, FALSE, FALSE, FALSE),
     Nd("If", 21, 19, 20, "", <<>>, 0, FALSE, "none", "", -1, <<>>, FALSE, FALSE, FALSE),
     Nd("Assign", 26, 20, 20, "", <<"b">>, 0, FALSE, "none", "", -1, <<"[","<","a","s","t",".","n","a","m","e"," ","o","b","j","e","c","t",">","]">>, FALSE, FALSE, FALSE),
     Nd("If", 21, 21, 22, "", <<>>, 0, FALSE, "none", "", -1, <<>>, FALSE, FALSE, FALSE),
     Nd("Assign", 28, 22, 22, "", <<"b">>, 0, FALSE, "none", "", -1, <<"[","<","a","s","t",".","n","a","m","e"," ","o","b","j","e","c","t",">","]">>, FALSE, FALSE, FALSE),
     Nd("If", 21, 23, 24, "", <<>>, 0, FALSE, "none", "", -1, <<>>, FALSE, FALSE, FALSE),
     Nd("Assign", 30, 24, 24, "", <<"b">>, 0, FALSE, "none", "", -1, <<"[","<","a","s","t",".","n","a","m","e"," ","o","b","j","e","c","t",">","]">>, FALSE, FALSE, FALSE),
     Nd("If", 21, 25, 26, "", <<>>, 0, FALSE, "none", "", -1, <<>>, FALSE, FALSE, FALSE),
     Nd("Assign", 32, 26, 26, "", <<"b">>, 0, FALSE, "none", "", -1, <<"[","<","a","s","t",".","n","a","m","e"," ","o","b","j","e","c","t",">","]">>, FALSE, FALSE, FALSE),
     Nd("FunctionDef", 1, 28, 29, "p1", <<"p","1">>, 6, FALSE, "none", "", -1, <<>>, FALSE, FALSE, FALSE),
     Nd("FunctionDef", 1, 31, 32, "p2", <<"p","2">>, 6, FALSE, "none", "", -1, <<>>, FALSE, FALSE, FALSE),
     Nd("FunctionDef", 1, 34, 35, "p3", <<"p","3">>, 6, FALSE, "none", "", -1, <<>>, FALSE, FALSE, FALSE),
     Nd("FunctionDef", 1, 37, 38, "p4", <<"p","4">>, 6, FALSE, "none", "", -1, <<>>, FALSE, FALSE, FALSE),
     Nd("FunctionDef", 1, 40, 41, "p5", <<"p","5">>, 6, FALSE, "none", "", -1, <<>>, FALSE, FALSE, FALSE) >>

LinesEvals ==
  << "code", "code", "code", "blank", "code", "code", "blank", "code", "code", "code", "code", "code", "blank", "code", "code", "code", "code", "code", "code", "code", "code", "code", "code", "code", "code", "code", "blank", "code", "code", "blank", "code", "code", "blank", "code", "code", "blank", "code", "code", "blank", "code", "code", "blank" >>

\* Rules: def save_all(a, b, c, d, e, f): |     try: |         for i in a: |             for j in b: |                 c = c + j |     except: |         pass |  | class Maker: |     kind = 'k' |     def create_item(self): |         return Maker() |  | api_key = 'sk-live-0123456789' | 
FileRules ==
  << Nd("Module", 0, 0, 0, "", <<>>, 0, FALSE, "none", "", -1, <<>>, FALSE, FALSE, FALSE),
     Nd("FunctionDef", 1, 1, 7, "save_all", <<"s","a","v","e","_","a","l","l">>, 6, FALSE, "none", "", -1, <<>>, FALSE, FALSE, FALSE),
     Nd("Try", 2, 2, 7, "", <<>>, 0, FALSE, "none", "", -1, <<>>, FALSE, FALSE, FALSE),
     Nd("For", 3, 3, 5, "", <<>>, 0, FALSE, "none", "", -1, <<>>, FALSE, FALSE, FALSE),
     Nd("For", 4, 4, 5, "", <<>>, 0, FALSE, "none", "", -1, <<>>, FALSE, FALSE, FALSE),
     Nd("Assign", 5, 5, 5, "", <<"c">>, 0, FALSE, "none", "", -1, <<"[","<","a","s","t",".","n","a","m","e"," ","o","b","j","e","c","t",">","]">>, FALSE, FALSE, FALSE),
     Nd("BinOp", 6, 5, 5, "", <<>>, 0, FALSE, "none", "Add", -1, <<>>, FALSE, FALSE, FALSE),
     Nd("ExceptHandler", 3, 6, 7, "", <<>>, 0, TRUE, "none", "", -1, <<>>, FALSE, FALSE, FALSE),
     Nd("ClassDef", 1, 9, 12, "Maker", <<"M","a","k","e","r">>, 0, FALSE, "none", "", -1, <<>>, FALSE, FALSE, FALSE),
     Nd("Assign", 9, 10, 10, "", <<"k","i","n","d">>, 0, FALSE, "none", "", 1, <<"[","<","a","s","t",".","n","a","m","e"," ","o","b","j","e","c","t",">","]">>, FALSE, FALSE, FALSE),
     Nd("FunctionDef", 9, 11, 12, "create_item", <<"c","r","e","a","t","e","_","i","t","e","m">>, 1, FALSE, "none", "", -1, <<>>, FALSE, FALSE, FALSE),
     Nd("Return", 11, 12, 12, "", <<>>, 0, FALSE, "none", "", -1, <<>>, FALSE, FALSE, FALSE),
     Nd("Call", 12, 12, 12, "Maker", <<>>, 0, FALSE, "id", "", -1, <<>>, FALSE, FALSE, FALSE),
     Nd("Assign", 1, 14, 14, "", <<"a","p","i","_","k","e","y">>, 0, FALSE, "none", "", 18, <<"[","<","a","s","t",".","n","a","m","e"," ","o","b","j","e","c","t",">","]">>, FALSE, FALSE, FALSE) >>

LinesRules ==
  << "code", "code", "code", "code", "code", "code", "code", "blank", "code", "code", "code", "code", "blank", "code", "blank" >>

\* Big: def route(a, b): |     if a == 0: |         b = 0 |     if a == 1: |         b = 1 |     if a == 2: |         b = 2 |     if a == 3: |   ...  pass |     pass |  | for a in s: |     for b in a: |         eval(b) | 
FileBig ==
  << Nd("Module", 0, 0, 0, "", <<>>, 0, FALSE, "none", "", -1, <<>>, FALSE, FALSE, FALSE),
     Nd("FunctionDef", 1, 1, 22, "route", <<"r","o","u","t","e">>, 2, FALSE, "none", "", -1, <<>>, FALSE, FALSE, FALSE),
     Nd("If", 2, 2, 3, "", <<>>, 0, FALSE, "none", "", -1, <<>>, FALSE, FALSE, FALSE),
     Nd("Assign", 3, 3, 3, "", <<"b">>, 0, FALSE, "none", "", -1, <<"[","<","a","s","t",".","n","a","m","e"," ","o","b","j","e","c","t",">","]">>, FALSE, FALSE, FALSE),
     Nd("If", 2, 4, 5, "", <<>>, 0, FALSE, "none", "", -1, <<>>, FALSE, FALSE, FALSE),
     Nd("Assign", 5, 5, 5, "", <<"b">>, 0, FALSE, "none", "", -1, <<"[","<","a","s","t",".","n","a","m","e"," ","o","b","j","e","c","t",">","]">>, FALSE, FALSE, FALSE),
     Nd("If", 2, 6, 7, "", <<>>, 0, FALSE, "none", "", -1, <<>>, FALSE, FALSE, FALSE),
     Nd("Assign", 7, 7, 7, "", <<"b">>, 0, FALSE, "none", "", -1, <<"[","<","a","s","t",".","n","a","m","e"," ","o","b","j","e","c","t",">","]">>, FALSE, FALSE, FALSE),
     Nd("If", 2, 8, 9, "", <<>>, 0, FALSE, "none", "", -1, <<>>, FALSE, FALSE, FALSE),
     Nd("Assign", 9, 9, 9, "", <<"b">>, 0, FALSE, "none", "", -1, <<"[","<","a","s","t",".","n","a","m","e"," ","o","b","j","e","c","t",">","]">>, FALSE, FALSE, FALSE),
     Nd("If", 2, 10, 11, "", <<>>, 0, FALSE, "none", "", -1, <<>>, FALSE, FALSE, FALSE),
     Nd("Assign", 11, 11, 11, "", <<"b">>, 0, FALSE, "none", "", -1, <<"[","<","a","s","t",".","n","a","m","e"," ","o","b","j","e","c","t",">","]">>, FALSE, FALSE, FALSE),
     Nd("If", 2, 12, 13, "", <<>>, 0, FALSE, "none", "", -1, <<>>, FALSE, FALSE, FALSE),
     Nd("Assign", 13, 13, 13, "", <<"b">>, 0, FALSE, "none", "", -1, <<"[","<","a","s","t",".","n","a","m","e"," ","o","b","j","e","c","t",">","]">>, FALSE, FALSE, FALSE),
     Nd("If", 2, 14, 15, "", <<>>, 0, FALSE, "none", "", -1, <<>>, FALSE, FALSE, FALSE),
     Nd("Assign", 15, 15, 15, "", <<"b">>, 0, FALSE, "none", "", -1, <<"[","<","a","s","t",".","n","a","m","e"," ","o","b","j","e","c","t",">","]">>, FALSE, FALSE, FALSE),
     Nd("If", 2, 16, 17, "", <<>>, 0, FALSE, "none", "", -1, <<>>, FALSE, FALSE, FALSE),
     Nd("Assign", 17, 17, 17, "", <<"b">>, 0, FALSE, "none", "", -1, <<"[","<","a","s","t",".","n","a","m","e"," ","o","b","j","e","c","t",">","]">>, FALSE, FALSE, FALSE),
     Nd("If", 2, 18, 19, "", <<>>, 0, FALSE, "none", "", -1, <<>>, FALSE, FALSE, FALSE),
     Nd("Assign", 19, 19, 19, "", <<"b">>, 0, FALSE, "none", "", -1, <<"[","<","a","s","t",".","n","a","m","e"," ","o","b","j","e","c","t",">","]">>, FALSE, FALSE, FALSE),
     Nd("If", 2, 20, 21, "", <<>>, 0, FALSE, "none", "", -1, <<>>, FALSE, FALSE, FALSE),
     Nd("BoolOp", 21, 20, 20, "", <<>>, 0, FALSE, "none", "", -1, <<>>, FALSE, FALSE, FALSE),
     Nd("And", 22, 0, 0, "", <<>>, 0, FALSE, "none", "", -1, <<>>, FALSE, FALSE, FALSE),
     Nd("Return", 21, 21, 21, "", <<>>, 0, FALSE, "none", "", -1, <<>>, FALSE, FALSE, FALSE),
     Nd("Return", 2, 22, 22, "", <<>>, 0, FALSE, "none", "", -1, <<>>, FALSE, FALSE, FALSE),
     Nd("ClassDef", 1, 24, 56, "Wide", <<"W","i","d","e">>, 0, FALSE, "none", "", -1, <<>>, FALSE, FALSE, FALSE),
     Nd("FunctionDef", 26, 25, 26, "m0", <<"m","0">>, 1, FALSE, "none", "", -1, <<>>, FALSE, FALSE, FALSE),
     Nd("FunctionDef", 26, 27, 28, "m1", <<"m","1">>, 1, FALSE, "none", "", -1, <<>>, FALSE, FALSE, FALSE),
     Nd("FunctionDef", 26, 29, 30, "m2", <<"m","2">>, 1, FALSE, "none", "", -1, <<>>, FALSE, FALSE, FALSE),
     Nd("FunctionDef", 26, 31, 32, "m3", <<"m","3">>, 1, FALSE, "none", "", -1, <<>>, FALSE, FALSE, FALSE),
     Nd("FunctionDef", 26, 33, 34, "m4", <<"m","4">>, 1, FALSE, "none", "", -1, <<>>, FALSE, FALSE, FALSE),
     Nd("FunctionDef", 26, 35, 36, "m5", <<"m","5">>, 1, FALSE, "none", "", -1, <<>>, FALSE, FALSE, FALSE),
     Nd("FunctionDef", 26, 37, 38, "m6", <<"m","6">>, 1, FALSE, "none", "", -1, <<>>, FALSE, FALSE, FALSE),
     Nd("FunctionDef", 26, 39, 40, "m7", <<"m","7">>, 1, FALSE, "none", "", -1, <<>>, FALSE, FALSE, FALSE),
     Nd("FunctionDef", 26, 41, 42, "m8", <<"m","8">>, 1, FALSE, "none", "", -1, <<>>, FALSE, FALSE, FALSE),
     Nd("FunctionDef", 26, 43, 44, "m9", <<"m","9">>, 1, FALSE, "none", "", -1, <<>>, FALSE, FALSE, FALSE),
     Nd("FunctionDef", 26, 45, 46, "m10", <<"m","1","0">>, 1, FALSE, "none", "", -1, <<>>, FALSE, FALSE, FALSE),
     Nd("FunctionDef", 26, 47, 48, "m11", <<"m","1","1">>, 1, FALSE, "none", "", -1, <<>>, FALSE, FALSE, FALSE),
     Nd("FunctionDef", 26, 49, 50, "m12", <<"m","1","2">>, 1, FALSE, "none", "", -1, <<>>, FALSE, FALSE, FALSE),
     Nd("FunctionDef", 26, 51, 52, "m13", <<"m","1","3">>, 1, FALSE, "none", "", -1, <<>>, FALSE, FALSE, FALSE),
     Nd("FunctionDef", 26, 53, 54, "m14", <<"m","1","4">>, 1, FALSE, "none", "", -1, <<>>, FALSE, FALSE, FALSE),
     Nd("FunctionDef", 26, 55, 56, "m15", <<"m","1","5">>, 1, FALSE, "none", "", -1, <<>>, FALSE, FALSE, FALSE),
     Nd("FunctionDef", 1, 58, 107, "span50", <<"s","p","a","n","5","0">>, 0, FALSE, "none", "", -1, <<>>, FALSE, FALSE, FALSE),
     Nd("FunctionDef", 1, 109, 159, "span51", <<"s","p","a","n","5","1">>, 0, FALSE, "none", "", -1, <<>>, FALSE, FALSE, FALSE),
     Nd("FunctionDef", 1, 161, 212, "span52", <<"s","p","a","n","5","2">>, 0, FALSE, "none", "", -1, <<>>, FALSE, FALSE, FALSE),
     Nd("For", 1, 214, 216, "", <<>>, 0, FALSE, "none", "", -1, <<>>, FALSE, FALSE, FALSE),
     Nd("For", 46, 215, 216, "", <<>>, 0, FALSE, "none", "", -1, <<>>, FALSE, FALSE, FALSE),
     Nd("Expr", 47, 216, 216, "", <<>>, 0, FALSE, "none", "", -1, <<>>, FALSE, FALSE, FALSE),
     Nd("Call", 48, 216, 216, "eval", <<>>, 0, FALSE, "id", "", -1, <<>>, FALSE, FALSE, FALSE) >>

LinesBig ==
  << "code", "code", "code", "code", "code", "code", "code", "code", "code", "code", "code", "code", "code", "code", "code", "code", "code", "code", "code", "code", "code", "code", "blank", "code", "code", "code", "code", "code", "code", "code", "code", "code", "code", "code", "code", "code", "code", "code", "code", "code", "code", "code", "code", "code", "code", "code", "code", "code", "code", "code", "code", "code", "code", "code", "code", "code", "blank", "code", "code", "code", "code", "code", "code", "code", "code", "code", "code", "code", "code", "code", "code", "code", "code", "code", "code", "code", "code", "code", "code", "code", "code", "code", "code", "code", "code", "code", "code", "code", "code", "code", "code", "code", "code", "code", "code", "code", "code", "code", "code", "code", "code", "code", "code", "code", "code", "code", "code", "blank", "code", "code", "code", "code", "code", "code", "code", "code", "code", "code", "code", "code", "code", "code", "code", "code", "code", "code", "code", "code", "code", "code", "code", "code", "code", "code", "code", "code", "code", "code", "code", "code", "code", "code", "code", "code", "code", "code", "code", "code", "code", "code", "code", "code", "code", "code", "code", "code", "code", "code", "code", "blank", "code", "code", "code", "code", "code", "code", "code", "code", "code", "code", "code", "code", "code", "code", "code", "code", "code", "code", "code", "code", "code", "code", "code", "code", "code", "code", "code", "code", "code", "code", "code", "code", "code", "code", "code", "code", "code", "code", "code", "code", "code", "code", "code", "code", "code", "code", "code", "code", "code", "code", "code", "code", "blank", "code", "code", "code", "blank" >>

\* Nested: try: |     import q | except: |     q = None |  | def outer(): |     def is_ready(): |         try: |             q.go() |         except: |             pass |     while q: |         for i in q: |             pass |  | async def fetch(u): |     return u | 
FileNested ==
  << Nd("Module", 0, 0, 0, "", <<>>, 0, FALSE, "none", "", -1, <<>>, FALSE, FALSE, FALSE),
     Nd("Try", 1, 1, 4, "", <<>>, 0, FALSE, "none", "", -1, <<>>, FALSE, FALSE, FALSE),
     Nd("ExceptHandler", 2, 3, 4, "", <<>>, 0, TRUE, "none", "", -1, <<>>, FALSE, FALSE, FALSE),
     Nd("Assign", 3, 4, 4, "", <<"q">>, 0, FALSE, "none", "", -1, <<"[","<","a","s","t",".","n","a","m","e"," ","o","b","j","e","c","t",">","]">>, FALSE, FALSE, FALSE),
     Nd("FunctionDef", 1, 6, 14, "outer", <<"o","u","t","e","r">>, 0, FALSE, "none", "", -1, <<>>, FALSE, FALSE, FALSE),
     Nd("FunctionDef", 5, 7, 11, "is_ready", <<"i","s","_","r","e","a","d","y">>, 0, FALSE, "none", "", -1, <<>>, FALSE, FALSE, FALSE),
     Nd("Try", 6, 8, 11, "", <<>>, 0, FALSE, "none", "", -1, <<>>, FALSE, FALSE, FALSE),
     Nd("Expr", 7, 9, 9, "", <<>>, 0, FALSE, "none", "", -1, <<>>, FALSE, FALSE, FALSE),
     Nd("Call", 8, 9, 9, "go", <<>>, 0, FALSE, "attr", "", -1, <<>>, FALSE, FALSE, FALSE),
     Nd("ExceptHandler", 7, 10, 11, "", <<>>, 0, TRUE, "none", "", -1, <<>>, FALSE, FALSE, FALSE),
     Nd("While", 5, 12, 14, "", <<>>, 0, FALSE, "none", "", -1, <<>>, FALSE, FALSE, FALSE),
     Nd("For", 11, 13, 14, "", <<>>, 0, FALSE, "none", "", -1, <<>>, FALSE, FALSE, FALSE),
     Nd("AsyncFunctionDef", 1, 16, 17, "fetch", <<"f","e","t","c","h">>, 1, FALSE, "none", "", -1, <<>>, FALSE, FALSE, FALSE),
     Nd("Return", 13, 17, 17, "", <<>>, 0, FALSE, "none", "", -1, <<>>, FALSE, FALSE, FALSE) >>

LinesNested ==
  << "code", "code", "code", "code", "blank", "code", "code", "code", "code", "code", "code", "code", "code", "code", "blank", "code", "code", "blank" >>

\* Deep: def get_x(): |     pass |  | x = 1+1+1+1+1+1+1+1+1+1+1+1+1+1+1+1+1+1+1+1+1+1+1+1+1+1+1+1+1+1+1+1+1+1+1+1+1+1+1+1+1+1+1+1+1+1+1 ... 1+1+1+1+1+1+1+1+1+1+1+1+1+1+1+1 |  | def set_y(v): |     return v | 
FileDeep ==
  << Nd("Module", 0, 0, 0, "", <<>>, 0, FALSE, "none", "", -1, <<>>, FALSE, FALSE, FALSE),
     Nd("FunctionDef", 1, 1, 2, "get_x", <<"g","e","t","_","x">>, 0, FALSE, "none", "", -1, <<>>, FALSE, FALSE, FALSE),
     Nd("Assign", 1, 4, 4, "", <<"x">>, 0, FALSE, "none", "", -1, <<"[","<","a","s","t",".","n","a","m","e"," ","o","b","j","e","c","t",">","]">>, FALSE, FALSE, FALSE),
     Nd("BinOp", 3, 4, 4, "", <<>>, 0, FALSE, "none", "Add", -1, <<>>, FALSE, FALSE, TRUE),
     Nd("FunctionDef", 1, 6, 7, "set_y", <<"s","e","t","_","y">>, 1, FALSE, "none", "", -1, <<>>, FALSE, FALSE, FALSE),
     Nd("Return", 5, 7, 7, "", <<>>, 0, FALSE, "none", "", -1, <<>>, FALSE, FALSE, FALSE) >>

LinesDeep ==
  << "code", "code", "blank", "code", "blank", "code", "code", "blank" >>

\* Syntax: def f(: | pass |
LinesSyntax ==
  << "code", "code", "blank" >>

(***************************************************************************)
(* Strings as character sequences: str.lower, str.startswith, `in`.        *)
(***************************************************************************)
LowerChar(c) ==
  CASE c = "A" -> "a" [] c = "B" -> "b" [] c = "C" -> "c" [] c = "D" -> "d"
    [] c = "E" -> "e" [] c = "F" -> "f" [] c = "G" -> "g" [] c = "H" -> "h"
    [] c = "I" -> "i" [] c = "J" -> "j" [] c = "K" -> "k" [] c = "L" -> "l"
    [] c = "M" -> "m" [] c = "N" -> "n" [] c = "O" -> "o" [] c = "P" -> "p"
    [] c = "Q" -> "q" [] c = "R" -> "r" [] c = "S" -> "s" [] c = "T" -> "t"
    [] c = "U" -> "u" [] c = "V" -> "v" [] c = "W" -> "w" [] c = "X" -> "x"
    [] c = "Y" -> "y" [] c = "Z" -> "z" [] OTHER -> c

Lower(s) == [k \in 1..Len(s) |-> LowerChar(s[k])]

StartsWith(s, p) ==
  /\ Len(p) <= Len(s)
  /\ \A k \in 1..Len(p) : s[k] = p[k]

Contains(s, p) ==
  \E o \in 0..(Len(s) - Len(p)) : \A k \in 1..Len(p) : s[o + k] = p[k]

(***************************************************************************)
(* Tree navigation.                                                        *)
(***************************************************************************)
RECURSIVE InSubtree(_, _, _)
\* node j lies in the sub-tree rooted at node i (i itself included)
InSubtree(tree, i, j) ==
  IF j = i THEN TRUE
  ELSE IF j < i THEN FALSE
  ELSE InSubtree(tree, i, tree[j].parent)

RECURSIVE Depth(_, _)
Depth(tree, j) == IF tree[j].parent = 0 THEN 0 ELSE 1 + Depth(tree, tree[j].parent)

\* the indices 1..n in ascending order that satisfy Test
Indices(tree, Test(_)) == SelectSeq([k \in 1..Len(tree) |-> k], Test)

RECURSIVE WalkFrom(_, _, _)
WalkFrom(tree, i, d) ==
  LET level == Indices(tree, LAMBDA j : InSubtree(tree, i, j)
                                         /\ Depth(tree, j) = Depth(tree, i) + d)
  IN IF level = <<>> THEN <<>> ELSE level \o WalkFrom(tree, i, d + 1)

\* ast.walk(node): the node and its descendants, breadth first
Walk(tree, i) == WalkFrom(tree, i, 0)

\* the members of a statement list of node i that are of class kind
Children(tree, i, kind) ==
  Indices(tree, LAMBDA j : tree[j].parent = i /\ tree[j].kind = kind)

\* the nodes a NodeVisitor reaches before the recursion limit stops it:
\* all of them, or those in front of the first over-deep expression
DeepAt(tree) ==
  IF \E j \in 1..Len(tree) : tree[j].deep
  THEN CHOOSE j \in 1..Len(tree) :
         tree[j].deep /\ \A k \in 1..(j - 1) : ~tree[k].deep
  ELSE 0

Visited(tree) ==
  IF DeepAt(tree) = 0 THEN [k \in 1..Len(tree) |-> k]
  ELSE [k \in 1..(DeepAt(tree) - 1) |-> k]

\* the concatenation of the sequences of a sequence
RECURSIVE Flatten(_)
Flatten(ss) == IF ss = <<>> THEN <<>> ELSE Head(ss) \o Flatten(Tail(ss))

\* the concatenation of F(s[1]), F(s[2]), ...
FlatMap(s, F(_)) == Flatten([k \in 1..Len(s) |-> F(s[k])])

(***************************************************************************)
(* Findings.  A CodeIssue keeps severity, category, message (the rule that *)
(* fired, with the number the message quotes in detail), file_path,        *)
(* line_number and confidence (in hundredths).  code_snippet is the text   *)
(* of line line_number of file_path and fix_suggestion is fixed by the     *)
(* rule, so neither is kept.                                               *)
(***************************************************************************)
ConfNaming == 70
ConfComplexity == 90
ConfParamCount == 80
ConfBareExcept == 90
ConfNestedLoop == 80
ConfStringConcat == 90
ConfSecret == 80
ConfEvalExec == 95
ConfLargeClass == 80
WeightCritical == 20
WeightWarning == 10
WeightSuggestion == 5
ComplexityLimit == 10
ParamLimit == 5
MethodLimit == 15
SecretMinLen == 8

CodeIssue(severity, category, message, detail, file_path, line_number, confidence) ==
  [severity |-> severity, category |-> category, message |-> message,
   detail |-> detail, file_path |-> file_path, line_number |-> line_number,
   confidence |-> confidence]

Count(s, Test(_)) == Len(SelectSeq(s, Test))

(***************************************************************************)
(* BusinessLogicVisitor                                                    *)
(***************************************************************************)
ExtractFunctionOperations(tree, i) ==
  LET w == Walk(tree, i)
      kinds(k) == {tree[w[n]].kind : n \in 1..Len(w)} \cap {k}
      attrCalls == {tree[w[n]].name : n \in {m \in 1..Len(w) :
                       tree[w[m]].kind = "Call" /\ tree[w[m]].callee = "attr"}}
  IN (IF kinds("Return") # {} THEN {"return"} ELSE {})
     \cup (IF kinds("Assign") # {} THEN {"assignment"} ELSE {})
     \cup (IF attrCalls \cap {"open", "read", "write", "close"} # {}
           THEN {"file_io"} ELSE {})
     \cup (IF attrCalls \cap {"execute", "query", "commit"} # {}
           THEN {"database"} ELSE {})

CheckFunctionNamingConsistency(tree, i, file_path) ==
  LET func_name == Lower(tree[i].nchars)
      operations == ExtractFunctionOperations(tree, i)
      issue(m) == <<CodeIssue("warning", "logic", m, 0, file_path,
                              tree[i].line, ConfNaming)>>
  IN (IF StartsWith(func_name, <<"g", "e", "t", "_">>) /\ "return" \notin operations
      THEN issue("naming_get") ELSE <<>>)
     \o (IF StartsWith(func_name, <<"s", "e", "t", "_">>) /\ "assignment" \notin operations
         THEN issue("naming_set") ELSE <<>>)
     \o (IF /\ \/ StartsWith(func_name, <<"i", "s", "_">>)
               \/ StartsWith(func_name, <<"h", "a", "s", "_">>)
            /\ "return" \notin operations
         THEN issue("naming_bool") ELSE <<>>)
     \o (IF /\ Contains(func_name, <<"s", "a", "v", "e">>)
            /\ "file_io" \notin operations
            /\ "database" \notin operations
         THEN issue("naming_save") ELSE <<>>)

\* a complexity that does not count the boolean operators
CalculateComplexityWithoutBoolOps(tree, i) ==
  LET w == Walk(tree, i)
      branches == Count(w, LAMBDA j : tree[j].kind \in
                    {"If", "While", "For", "AsyncFor", "With", "AsyncWith"})
      handlers == Count(w, LAMBDA j : /\ tree[j].kind = "ExceptHandler"
                                      /\ tree[tree[j].parent].kind = "Try")
  IN 1 + branches + handlers

CalculateCyclomaticComplexity(tree, i) ==
  LET w == Walk(tree, i)
      branches == Count(w, LAMBDA j : tree[j].kind \in
                    {"If", "While", "For", "AsyncFor", "With", "AsyncWith"})
      boolops == Count(w, LAMBDA j : tree[j].kind \in {"And", "Or"})
      handlers == Count(w, LAMBDA j : /\ tree[j].kind = "ExceptHandler"
                                      /\ tree[tree[j].parent].kind = "Try")
  IN 1 + branches + handlers + boolops

CountReturnStatements(tree, i) ==
  Count(Walk(tree, i), LAMBDA j : tree[j].kind = "Return")

ExtractExternalCalls(tree, i) ==
  LET calls == SelectSeq(Walk(tree, i), LAMBDA j :
                 tree[j].kind = "Call" /\ tree[j].callee \in {"id", "attr"})
  IN [k \in 1..Len(calls) |-> tree[calls[k]].name]

FunctionMetrics(tree, i) ==
  [name |-> tree[i].name,
   line_start |-> tree[i].line,
   line_end |-> tree[i].endline,
   complexity |-> CalculateCyclomaticComplexity(tree, i),
   parameter_count |-> tree[i].params,
   return_complexity |-> CountReturnStatements(tree, i),
   has_docstring |-> tree[i].doc,
   async_function |-> tree[i].kind = "AsyncFunctionDef",
   nested_functions |-> Len(Children(tree, i, "FunctionDef")),
   external_calls |-> ExtractExternalCalls(tree, i)]

AnalyzeFunctionResponsibility(tree, i, file_path) ==
  LET complexity == CalculateCyclomaticComplexity(tree, i)
      param_count == tree[i].params
  IN (IF complexity > ComplexityLimit
      THEN <<CodeIssue("warning", "architecture", "complexity", complexity,
                       file_path, tree[i].line, ConfComplexity)>>
      ELSE <<>>)
     \o (IF param_count > ParamLimit
         THEN <<CodeIssue("suggestion", "architecture", "param_count", param_count,
                          file_path, tree[i].line, ConfParamCount)>>
         ELSE <<>>)

CheckErrorHandlingConsistency(tree, i, file_path) ==
  LET bare_excepts == SelectSeq(Walk(tree, i), LAMBDA j :
                        tree[j].kind = "ExceptHandler" /\ tree[j].bare)
  IN [k \in 1..Len(bare_excepts) |->
        CodeIssue("warning", "logic", "bare_except", 0, file_path,
                  tree[bare_excepts[k]].line, ConfBareExcept)]

\* BusinessLogicVisitor.visit_FunctionDef: the issues it appends for node i
VisitFunctionDef(tree, i, file_path) ==
  CheckFunctionNamingConsistency(tree, i, file_path)
  \o AnalyzeFunctionResponsibility(tree, i, file_path)
  \o CheckErrorHandlingConsistency(tree, i, file_path)

\* what BusinessLogicVisitor(self).visit(tree) appends to the accumulators
BusinessLogicVisitor(tree, file_path) ==
  LET funcs == SelectSeq(Visited(tree), LAMBDA j : tree[j].kind = "FunctionDef")
  IN [issues |-> FlatMap(funcs, LAMBDA j : VisitFunctionDef(tree, j, file_path)),
      function_metrics |-> [k \in 1..Len(funcs) |-> FunctionMetrics(tree, funcs[k])],
      class_metrics |-> <<>>]

(***************************************************************************)
(* PerformanceVisitor                                                      *)
(***************************************************************************)
FindStringConcatenations(tree, i) ==
  SelectSeq(Walk(tree, i), LAMBDA j : tree[j].kind = "BinOp" /\ tree[j].op = "Add")

VisitFor(tree, i, file_path) ==
  LET nested_loops == SelectSeq(Walk(tree, i), LAMBDA j :
                        tree[j].kind \in {"For", "While"} /\ j # i)
  IN (IF nested_loops # <<>>
      THEN <<CodeIssue("warning", "performance", "nested_loop", 0, file_path,
                       tree[i].line, ConfNestedLoop)>>
      ELSE <<>>)
     \o (IF FindStringConcatenations(tree, i) # <<>>
         THEN <<CodeIssue("warning", "performance", "string_concat", 0, file_path,
                          tree[i].line, ConfStringConcat)>>
         ELSE <<>>)

\* what PerformanceVisitor(self).visit(tree) appends to the accumulators
PerformanceVisitor(tree, file_path) ==
  LET loops == SelectSeq(Visited(tree), LAMBDA j : tree[j].kind = "For")
  IN [issues |-> FlatMap(loops, LAMBDA j : VisitFor(tree, j, file_path)),
      function_metrics |-> <<>>,
      class_metrics |-> <<>>]

(***************************************************************************)
(* SecurityVisitor                                                         *)
(***************************************************************************)
SecretKeywords ==
  { <<"p", "a", "s", "s", "w", "o", "r", "d">>, <<"s", "e", "c", "r", "e", "t">>,
    <<"k", "e", "y">>, <<"t", "o", "k", "e", "n">> }

VisitAssign(tree, i, file_path) ==
  IF /\ tree[i].strlen >= 0
     /\ tree[i].strlen > SecretMinLen
     /\ \E keyword \in SecretKeywords : Contains(tree[i].targets, keyword)
  THEN <<CodeIssue("critical", "security", "hardcoded_secret", 0, file_path,
                   tree[i].line, ConfSecret)>>
  ELSE <<>>

\* a visit_Call that looks for eval only
VisitCallEvalOnly(tree, i, file_path) ==
  IF tree[i].callee = "id" /\ tree[i].name = "eval"
  THEN <<CodeIssue("critical", "security", "eval", 0, file_path,
                   tree[i].line, ConfEvalExec)>>
  ELSE <<>>

VisitCall(tree, i, file_path) ==
  IF tree[i].callee = "id" /\ tree[i].name = "eval"
  THEN <<CodeIssue("critical", "security", "eval", 0, file_path,
                   tree[i].line, ConfEvalExec)>>
  ELSE IF tree[i].callee = "id" /\ tree[i].name = "exec"
  THEN <<CodeIssue("critical", "security", "exec", 0, file_path,
                   tree[i].line, ConfEvalExec)>>
  ELSE <<>>

\* what SecurityVisitor(self).visit(tree) appends to the accumulators
SecurityVisitor(tree, file_path) ==
  LET nodes == SelectSeq(Visited(tree), LAMBDA j : tree[j].kind \in {"Assign", "Call"})
  IN [issues |-> FlatMap(nodes, LAMBDA j :
                   IF tree[j].kind = "Assign"
                   THEN VisitAssign(tree, j, file_path)
                   ELSE VisitCall(tree, j, file_path)),
      function_metrics |-> <<>>,
      class_metrics |-> <<>>]

(***************************************************************************)
(* ArchitectureVisitor                                                     *)
(***************************************************************************)
DetectDesignPattern(tree, i) ==
  LET methods == Children(tree, i, "FunctionDef")
      method_names == {tree[methods[k]].name : k \in 1..Len(methods)}
      dumpHasInstance(m) == \E j \in 1..Len(tree) : InSubtree(tree, m, j) /\ tree[j].inst
  IN IF /\ "__new__" \in method_names
        /\ \E k \in 1..Len(methods) : dumpHasInstance(methods[k])
     THEN "Singleton"
     ELSE IF \E k \in 1..Len(methods) :
               StartsWith(tree[methods[k]].nchars, <<"c", "r", "e", "a", "t", "e", "_">>)
     THEN "Factory"
     ELSE IF "notify" \in method_names /\ "subscribe" \in method_names
     THEN "Observer"
     ELSE "None"

ClassMetrics(tree, i) ==
  [name |-> tree[i].name,
   line_start |-> tree[i].line,
   line_end |-> tree[i].endline,
   method_count |-> Len(Children(tree, i, "FunctionDef")),
   property_count |-> Len(Children(tree, i, "Assign")),
   inheritance_depth |-> tree[i].params,
   has_docstring |-> tree[i].doc,
   design_pattern |-> DetectDesignPattern(tree, i)]

VisitClassDef(tree, i, file_path) ==
  LET methods == Children(tree, i, "FunctionDef")
  IN IF Len(methods) > MethodLimit
     THEN <<CodeIssue("warning", "architecture", "large_class", Len(methods),
                      file_path, tree[i].line, ConfLargeClass)>>
     ELSE <<>>

\* what ArchitectureVisitor(self).visit(tree) appends to the accumulators
ArchitectureVisitor(tree, file_path) ==
  LET classes == SelectSeq(Visited(tree), LAMBDA j : tree[j].kind = "ClassDef")
  IN [issues |-> FlatMap(classes, LAMBDA j : VisitClassDef(tree, j, file_path)),
      function_metrics |-> <<>>,
      class_metrics |-> [k \in 1..Len(classes) |-> ClassMetrics(tree, classes[k])]]

(***************************************************************************)
(* Quality scorer.  Confidences are hundredths, so penalties and the       *)
(* unrounded score are hundredths of a point; the returned score is in     *)
(* tenths of a point (round(score, 1)), 1000 standing for 100.0.           *)
(***************************************************************************)
\* the penalty sum with the warning branch lost: only critical issues weigh 20,
\* every other issue weighs 5
RECURSIVE TotalPenaltyNoWarning(_)
TotalPenaltyNoWarning(issues) ==
  IF issues = <<>> THEN 0
  ELSE (IF Head(issues).severity = "critical" THEN WeightCritical * Head(issues).confidence
        ELSE WeightSuggestion * Head(issues).confidence)
       + TotalPenaltyNoWarning(Tail(issues))

\* the penalty sum with each confidence truncated to a whole number first
\* (int(issue.confidence)), which is 0 for every confidence below 1.0
RECURSIVE TotalPenaltyIntConfidence(_)
TotalPenaltyIntConfidence(issues) ==
  IF issues = <<>> THEN 0
  ELSE (IF Head(issues).severity = "critical"
        THEN WeightCritical * 100 * (Head(issues).confidence \div 100)
        ELSE IF Head(issues).severity = "warning"
        THEN WeightWarning * 100 * (Head(issues).confidence \div 100)
        ELSE WeightSuggestion * 100 * (Head(issues).confidence \div 100))
       + TotalPenaltyIntConfidence(Tail(issues))

RECURSIVE TotalPenalty(_)
TotalPenalty(issues) ==
  IF issues = <<>> THEN 0
  ELSE (IF Head(issues).severity = "critical" THEN WeightCritical * Head(issues).confidence
        ELSE IF Head(issues).severity = "warning" THEN WeightWarning * Head(issues).confidence
        ELSE WeightSuggestion * Head(issues).confidence)
       + TotalPenalty(Tail(issues))

\* max(0, x) without the floor
MaxNoFloor(a, b) == b
Max(a, b) == IF a >= b THEN a ELSE b

\* round(x, 1) of x given in hundredths: to the nearest tenth, a tie to the even tenth
Round1(h) ==
  LET q == h \div 10
      r == h % 10
  IN IF r < 5 THEN q
     ELSE IF r > 5 THEN q + 1
     ELSE IF q % 2 = 0 THEN q ELSE q + 1

CalculateQualityScore(issues) ==
  IF issues = <<>> THEN 1000
  ELSE Round1(Max(0, 10000 - TotalPenalty(issues)))

(***************************************************************************)
(* File system.  A location is a directory and a file name; a path is      *)
(* absolute (it names its directory) or relative (the operating system     *)
(* resolves it against the working directory).                             *)
(***************************************************************************)
AstContents == {"Clean", "Getter", "Evals", "Rules", "Big", "Nested", "Deep"}
Unparsable == {"Syntax"}
Unreadable == {"Undecodable", "Directory"}
Contents == AstContents \cup Unparsable \cup Unreadable
Absent == "absent"

Tree(content) ==
  CASE content = "Clean" -> FileClean
    [] content = "Getter" -> FileGetter
    [] content = "Evals" -> FileEvals
    [] content = "Rules" -> FileRules
    [] content = "Big" -> FileBig
    [] content = "Nested" -> FileNested
    [] content = "Deep" -> FileDeep

\* the SyntaxError ast.parse raises on the unparsable source
SyntaxErrorOf(content) == [msg |-> "invalid syntax", lineno |-> 1]

\* the exception open()/read() raises
ReadErrorOf(content) ==
  IF content = "Directory" THEN "IsADirectoryError" ELSE "UnicodeDecodeError"

\* the text of a source, line by line (content.split('\n')), each line by what
\* the line counters look at
SourceLines(content) ==
  CASE content = "Clean" -> LinesClean
    [] content = "Getter" -> LinesGetter
    [] content = "Evals" -> LinesEvals
    [] content = "Rules" -> LinesRules
    [] content = "Big" -> LinesBig
    [] content = "Nested" -> LinesNested
    [] content = "Deep" -> LinesDeep
    [] content = "Syntax" -> LinesSyntax

Dirs == {"cwd", "proj"}
PyName == "a.py"
TxtName == "notes.txt"
TxtLoc == <<"cwd", TxtName>>
Locations == (Dirs \X {PyName}) \cup {TxtLoc}

AbsPath(dir, name) == [abs |-> TRUE, dir |-> dir, name |-> name]
RelPath(name) == [abs |-> FALSE, dir |-> "", name |-> name]
PyPaths == {RelPath(PyName)} \cup {AbsPath(d, PyName) : d \in Dirs}
Paths == PyPaths \cup {RelPath(TxtName)}

\* os.path.isabs
IsAbs(path) == path.abs

\* the location a path is resolved to by the operating system
Loc(path) == IF path.abs THEN <<path.dir, path.name>> ELSE <<"cwd", path.name>>

\* os.path.exists
OsPathExists(fsv, path) == Loc(path) \in Locations /\ fsv[Loc(path)] # Absent

\* os.path.join(project_path, file_path) for a relative file_path
JoinProject(path) == AbsPath("proj", path.name)

(***************************************************************************)
(* CodeIntelligenceEngine.analyze_file                                     *)
(***************************************************************************)
EmptyEngine == [issues |-> <<>>, function_metrics |-> <<>>, class_metrics |-> <<>>]

\* the visitors' appends for every source and every path it can be given as
BusinessLogicOf ==
  [c \in AstContents |-> [p \in Paths |-> BusinessLogicVisitor(Tree(c), p)]]
PerformanceOf ==
  [c \in AstContents |-> [p \in Paths |-> PerformanceVisitor(Tree(c), p)]]
SecurityOf ==
  [c \in AstContents |-> [p \in Paths |-> SecurityVisitor(Tree(c), p)]]
ArchitectureOf ==
  [c \in AstContents |-> [p \in Paths |-> ArchitectureVisitor(Tree(c), p)]]

\* the visitor of a pass raises RecursionError on this source
Raises == [c \in AstContents |-> DeepAt(Tree(c)) # 0]

\* the accumulators after a visitor appended its findings
Accumulators == {"issues", "function_metrics", "class_metrics"}
Extend(eng, found) == [a \in Accumulators |-> eng[a] \o found[a]]

\* the four passes; content names the parsed source, tree = Tree(content)
AnalyzeBusinessLogic(eng, content, file_path) ==
  Extend(eng, BusinessLogicOf[content][file_path])
AnalyzePerformancePatterns(eng, content, file_path) ==
  Extend(eng, PerformanceOf[content][file_path])
AnalyzeSecurityRisks(eng, content, file_path) ==
  Extend(eng, SecurityOf[content][file_path])
AnalyzeArchitectureDecisions(eng, content, file_path) ==
  Extend(eng, ArchitectureOf[content][file_path])

\* self.issues.clear(); self.function_metrics.clear(); self.class_metrics.clear()
KeepAccumulators(eng) == eng
ClearAccumulators(eng) ==
  [eng EXCEPT !.issues = <<>>, !.function_metrics = <<>>, !.class_metrics = <<>>]

\* a count that takes the critical issues into every severity
CountSeverityOrCritical(issues, s) ==
  Count(issues, LAMBDA i : i.severity \in {s, "critical"})

CountSeverity(issues, s) == Count(issues, LAMBDA i : i.severity = s)

\* lines 96-106: the dictionary analyze_file builds, up to the score
ResultBody(eng, file_path) ==
  [file_path |-> file_path,
   analysis_summary |->
     [total_issues |-> Len(eng.issues),
      critical_issues |-> CountSeverity(eng.issues, "critical"),
      warnings |-> CountSeverity(eng.issues, "warning"),
      suggestions |-> CountSeverity(eng.issues, "suggestion")],
   issues |-> eng.issues,
   function_metrics |-> eng.function_metrics,
   class_metrics |-> eng.class_metrics]

\* line 107: the last entry of the dictionary
WithScore(body, score) ==
  [k \in DOMAIN body \cup {"overall_quality_score"} |->
     IF k = "overall_quality_score" THEN score ELSE body[k]]

\* the dictionary analyze_file returns on success
AnalysisResult(eng, file_path) ==
  WithScore(ResultBody(eng, file_path), CalculateQualityScore(eng.issues))

\* a not-found result that names the joined path
NotFoundResultJoined(file_path) == [error |-> <<"not_found", JoinProject(file_path)>>]
NotFoundResult(file_path) == [error |-> <<"not_found", file_path>>]
\* a syntax error that falls through to the generic handler
SyntaxErrorAsFailure(e, file_path) ==
  [error |-> <<"analysis_failed", e.msg>>, file_path |-> file_path]
SyntaxErrorResult(e, file_path) ==
  [error |-> <<"syntax_error", e.msg, e.lineno>>, file_path |-> file_path]
FailureResult(msg, file_path) ==
  [error |-> <<"analysis_failed", msg>>, file_path |-> file_path]

IsError(result) == "error" \in DOMAIN result

\* the four passes with the architecture pass run first
RunPassesArchitectureFirst(eng, content, file_path) ==
  AnalyzeSecurityRisks(
    AnalyzePerformancePatterns(
      AnalyzeBusinessLogic(
        AnalyzeArchitectureDecisions(eng, content, file_path),
        content, file_path),
      content, file_path),
    content, file_path)

\* the four passes in the order analyze_file runs them
RunPasses(eng, content, file_path) ==
  AnalyzeArchitectureDecisions(
    AnalyzeSecurityRisks(
      AnalyzePerformancePatterns(
        AnalyzeBusinessLogic(eng, content, file_path), content, file_path),
      content, file_path),
    content, file_path)

\* lines 96-108: the result of a call whose passes left the accumulators `done`
Completed(done, file_path) ==
  [eng |-> done, result |-> AnalysisResult(done, file_path)]

\* lines 85-108 and 115-119: the reset, the passes and the result, for a
\* source that was read and parsed; when a visitor raises, the findings of
\* the passes in front of it stay in the accumulators
AnalyzeParsed(cleared, content, file_path) ==
  IF Raises[content]
  THEN [eng |-> AnalyzeBusinessLogic(cleared, content, file_path),
        result |-> FailureResult("RecursionError", file_path)]
  ELSE Completed(RunPasses(cleared, content, file_path), file_path)

\* lines 79-119: open, read and parse, then the analysis
AnalyzeContent(eng, content, file_path) ==
  IF content \in Unreadable
  THEN [eng |-> eng, result |-> FailureResult(ReadErrorOf(content), file_path)]
  ELSE IF content \in Unparsable
  THEN [eng |-> eng, result |-> SyntaxErrorResult(SyntaxErrorOf(content), file_path)]
  ELSE AnalyzeParsed(ClearAccumulators(eng), content, file_path)

\* analyze_file as one call: the engine it leaves and the value it returns
AnalyzeFile(eng, fsv, file_path) ==
  IF ~OsPathExists(fsv, file_path)
  THEN [eng |-> eng, result |-> NotFoundResult(file_path)]
  ELSE AnalyzeContent(eng, fsv[Loc(file_path)], file_path)

(***************************************************************************)
(* The tool functions of professional_code_analyzer.py that take a         *)
(* file_path, and analyze_python of minimal_code_server.py.                *)
(***************************************************************************)
Min(a, b) == IF a <= b THEN a ELSE b

\* s[:n]
Take(s, n) == SubSeq(s, 1, Min(n, Len(s)))

\* a resolution that looks at the path as given first
ResolveAsGivenFirst(fsv, file_path) ==
  IF ~IsAbs(file_path) /\ ~OsPathExists(fsv, file_path)
     /\ OsPathExists(fsv, JoinProject(file_path))
  THEN JoinProject(file_path)
  ELSE file_path

\* "处理相对路径": a relative file_path is replaced by the path joined to the
\* project directory when that exists, and is kept as given otherwise
ResolvePath(fsv, file_path) ==
  IF ~IsAbs(file_path) /\ OsPathExists(fsv, JoinProject(file_path))
  THEN JoinProject(file_path)
  ELSE file_path

\* analyze_code_intelligence(file_path)
AnalyzeCodeIntelligence(eng, fsv, file_path) ==
  AnalyzeFile(eng, fsv, ResolvePath(fsv, file_path))

\* DevAcceleratorEngine.suggest_refactoring on a parsed source
FunctionLengthLimit == 50
RefactorVisit(tree, i) ==
  IF tree[i].kind = "FunctionDef"
  THEN (IF tree[i].endline - tree[i].line > FunctionLengthLimit
        THEN <<[type |-> "function_length", message |-> tree[i].name,
                suggestion |-> "split_function"]>>
        ELSE <<>>)
       \o (IF tree[i].params > ParamLimit
           THEN <<[type |-> "parameter_count", message |-> tree[i].name,
                   suggestion |-> "use_dataclass"]>>
           ELSE <<>>)
  ELSE IF tree[i].kind = "ClassDef"
  THEN (IF Len(Children(tree, i, "FunctionDef")) > MethodLimit
        THEN <<[type |-> "class_size", message |-> tree[i].name,
                suggestion |-> "split_class"]>>
        ELSE <<>>)
  ELSE <<>>

RefactoringOf ==
  [c \in AstContents |->
     Flatten([k \in 1..Len(Walk(Tree(c), 1)) |-> RefactorVisit(Tree(c), Walk(Tree(c), 1)[k])])]

\* DevAcceleratorEngine.suggest_refactoring(code): a source that does not
\* parse gives the empty list
DevSuggestRefactoring(content) ==
  IF content \in Unparsable THEN <<>> ELSE RefactoringOf[content]

\* lines 871-879 of the tool suggest_refactoring, file_path resolved
SuggestRefactoringAt(fsv, file_path) ==
  IF ~OsPathExists(fsv, file_path)
  THEN <<[type |-> "error", message |-> <<"not_found", file_path>>,
          suggestion |-> "check_path"]>>
  ELSE IF fsv[Loc(file_path)] \in Unreadable
  THEN <<[type |-> "error",
          message |-> <<"read_failed", ReadErrorOf(fsv[Loc(file_path)])>>,
          suggestion |-> "check_permissions"]>>
  ELSE DevSuggestRefactoring(fsv[Loc(file_path)])

\* suggest_refactoring(file_path), the tool
SuggestRefactoring(fsv, file_path) ==
  SuggestRefactoringAt(fsv, ResolvePath(fsv, file_path))

\* the closing block of a report, by score (tenths of a point)
ScoreBand(score) ==
  IF score >= 800 THEN "good" ELSE IF score >= 600 THEN "attention" ELSE "poor"

ComplexityIcon(complexity) ==
  IF complexity <= 5 THEN "green" ELSE IF complexity <= 10 THEN "yellow" ELSE "red"

\* f"❌ 分析失败: {analysis['error']}"
AnalysisFailedText(analysis) == [text |-> "analysis_failed", error |-> analysis.error]

Severity(issue_list, s) == SelectSeq(issue_list, LAMBDA i : i.severity = s)

\* complexity lines for all the functions
FunctionLinesUncut(functions) ==
  [k \in 1..Len(functions) |->
     [icon |-> ComplexityIcon(functions[k].complexity),
      name |-> functions[k].name,
      complexity |-> functions[k].complexity,
      parameter_count |-> functions[k].parameter_count]]

\* the function complexity lines of the composite report
FunctionLines(functions) ==
  [k \in 1..Min(5, Len(functions)) |->
     [icon |-> ComplexityIcon(functions[k].complexity),
      name |-> functions[k].name,
      complexity |-> functions[k].complexity,
      parameter_count |-> functions[k].parameter_count]]

\* the critical issue lines of the composite report
CriticalLines(critical_issues) ==
  [k \in 1..Min(3, Len(critical_issues)) |->
     [line_number |-> critical_issues[k].line_number,
      message |-> critical_issues[k].message]]

\* the text get_comprehensive_analysis builds, as the sections it is made of
ComprehensiveReport(analysis, refactor_suggestions) ==
  [text |-> "report",
   file_path |-> analysis.file_path,
   score |-> analysis.overall_quality_score,
   summary |-> analysis.analysis_summary,
   functions |-> FunctionLines(analysis.function_metrics),
   refactoring |-> Take(refactor_suggestions, 5),
   critical |-> CriticalLines(Severity(analysis.issues, "critical")),
   closing |-> ScoreBand(analysis.overall_quality_score)]

\* lines 902-962 of get_comprehensive_analysis: out is what
\* analyze_code_intelligence left and returned
ComprehensiveOf(out, refactor_suggestions) ==
  [eng |-> out.eng,
   result |-> IF IsError(out.result)
              THEN AnalysisFailedText(out.result)
              ELSE ComprehensiveReport(out.result, refactor_suggestions)]

\* lines 898-907 of get_comprehensive_analysis, file_path resolved
ComprehensiveAt(eng, fsv, file_path) ==
  IF ~OsPathExists(fsv, file_path)
  THEN [eng |-> eng, result |-> [text |-> "not_found", file_path |-> file_path]]
  ELSE ComprehensiveOf(AnalyzeCodeIntelligence(eng, fsv, file_path),
                       SuggestRefactoring(fsv, file_path))

\* get_comprehensive_analysis(file_path): the engine it leaves and the text
\* it returns
GetComprehensiveAnalysis(eng, fsv, file_path) ==
  ComprehensiveAt(eng, fsv, ResolvePath(fsv, file_path))

\* the critical issue blocks of the quality report
CriticalBlocks(critical_issues) ==
  [k \in 1..Min(3, Len(critical_issues)) |->
     [line_number |-> critical_issues[k].line_number,
      category |-> critical_issues[k].category,
      message |-> critical_issues[k].message,
      confidence |-> critical_issues[k].confidence]]

\* the warning blocks of the quality report
WarningBlocks(warnings) ==
  [k \in 1..Min(3, Len(warnings)) |->
     [line_number |-> warnings[k].line_number,
      category |-> warnings[k].category,
      message |-> warnings[k].message]]

\* the complex function lines of the quality report
ComplexFunctionLines(complex_functions) ==
  [k \in 1..Min(3, Len(complex_functions)) |->
     [name |-> complex_functions[k].name,
      complexity |-> complex_functions[k].complexity,
      parameter_count |-> complex_functions[k].parameter_count]]

\* the text get_quality_report builds, as the sections it is made of
QualityReport(analysis) ==
  [text |-> "report",
   file_path |-> analysis.file_path,
   score |-> analysis.overall_quality_score,
   summary |-> analysis.analysis_summary,
   critical |-> CriticalBlocks(Severity(analysis.issues, "critical")),
   warning_list |-> WarningBlocks(Severity(analysis.issues, "warning")),
   complex_functions |->
     ComplexFunctionLines(SelectSeq(analysis.function_metrics,
                                    LAMBDA f : f.complexity > 7)),
   closing |-> ScoreBand(analysis.overall_quality_score)]

\* lines 976-1036 of get_quality_report
QualityOf(out) ==
  [eng |-> out.eng,
   result |-> IF IsError(out.result)
              THEN AnalysisFailedText(out.result)
              ELSE QualityReport(out.result)]

\* get_quality_report(file_path)
GetQualityReport(eng, fsv, file_path) ==
  QualityOf(AnalyzeCodeIntelligence(eng, fsv, file_path))

\* file_path.endswith('.py')
EndsWithPy(path) == path.name = PyName

MaxListed == 10

\* [f for f in os.listdir(project_dir) if f.endswith('.py')], the files by
\* number: a.py is file 0, the other .py files are 1, 2, ...; the directory
\* is listed in an order the operating system picks, so a.py, when it is
\* there, stands at any position
ListedPy == 0
ProjectPyFiles(fsv, proj, pos) ==
  IF OsPathExists(fsv, AbsPath("proj", PyName))
  THEN [k \in 1..(proj.others + 1) |->
          IF k < pos THEN k ELSE IF k = pos THEN ListedPy ELSE k - 1]
  ELSE [k \in 1..proj.others |-> k]

\* the functions and classes ast.walk meets, in its order
WalkDefinitions(tree, kind) == SelectSeq(Walk(tree, 1), LAMBDA i : tree[i].kind = kind)

PythonStructureOf ==
  [c \in AstContents |->
     LET tree == Tree(c)
         fs_ == WalkDefinitions(tree, "FunctionDef")
         cs_ == WalkDefinitions(tree, "ClassDef")
     IN [functions |-> [k \in 1..Len(fs_) |->
                          [name |-> tree[fs_[k]].name, line |-> tree[fs_[k]].line,
                           args |-> tree[fs_[k]].params]],
         classes |-> [k \in 1..Len(cs_) |->
                        [name |-> tree[cs_[k]].name, line |-> tree[cs_[k]].line]]]]

\* lines 63-69 of analyze_python: the counts taken before parsing
BasicStats(lines, file_path) ==
  [file_path |-> file_path,
   total_lines |-> Len(lines),
   code_lines |-> Len(SelectSeq(lines, LAMBDA l : l = "code")),
   comment_lines |-> Len(SelectSeq(lines, LAMBDA l : l = "comment"))]

\* {**basic_stats, ...}
Merge(basic_stats, more) ==
  [k \in DOMAIN basic_stats \cup DOMAIN more |->
     IF k \in DOMAIN more THEN more[k] ELSE basic_stats[k]]

\* a parse failure that reaches the outer handler
PythonContentSyntaxAsError(content, file_path) ==
  IF content \in Unreadable
  THEN [error |-> ReadErrorOf(content)]
  ELSE IF content \in Unparsable
  THEN [error |-> SyntaxErrorOf(content).msg]
  ELSE Merge(BasicStats(SourceLines(content), file_path),
             [functions |-> PythonStructureOf[content].functions,
              classes |-> PythonStructureOf[content].classes,
              functions_count |-> Len(PythonStructureOf[content].functions),
              classes_count |-> Len(PythonStructureOf[content].classes)])

\* lines 58-105 of analyze_python
PythonContent(content, file_path) ==
  IF content \in Unreadable
  THEN [error |-> ReadErrorOf(content)]
  ELSE IF content \in Unparsable
  THEN Merge(BasicStats(SourceLines(content), file_path),
             [syntax_error |-> SyntaxErrorOf(content)])
  ELSE Merge(BasicStats(SourceLines(content), file_path),
             [functions |-> PythonStructureOf[content].functions,
              classes |-> PythonStructureOf[content].classes,
              functions_count |-> Len(PythonStructureOf[content].functions),
              classes_count |-> Len(PythonStructureOf[content].classes)])

\* lines 44-105 of analyze_python, file_path resolved; `raised` is the
\* exception that leaves the function
AnalyzePythonAt(fsv, proj, pos, file_path) ==
  IF ~OsPathExists(fsv, file_path)
  THEN IF ~proj.listable
       THEN [raised |-> "FileNotFoundError"]
       ELSE [error |-> <<"not_found", file_path>>,
             current_directory |-> "cwd",
             suggestion |-> "proj",
             available_files |-> Take(ProjectPyFiles(fsv, proj, pos), MaxListed)]
  ELSE IF ~EndsWithPy(file_path)
  THEN [error |-> "python_only"]
  ELSE PythonContent(fsv[Loc(file_path)], file_path)

\* analyze_python(file_path) of minimal_code_server.py
AnalyzePython(fsv, proj, pos, file_path) ==
  AnalyzePythonAt(fsv, proj, pos, ResolvePath(fsv, file_path))

(***************************************************************************)
(* DevAcceleratorEngine.generate_commit_message and the tool               *)
(* generate_commit_message.  A change description is the sequence of its   *)
(* characters; a commit message is kept as its type and the number it      *)
(* quotes in "(N files)", the rest of the text being fixed by the type.    *)
(***************************************************************************)
\* 'added new login feature'
DescLogin == <<"a", "d", "d", "e", "d", " ", "n", "e", "w", " ", "l", "o", "g", "i", "n", " ", "f", "e", "a", "t", "u", "r", "e">>
\* 'fix crash'
DescCrash == <<"f", "i", "x", " ", "c", "r", "a", "s", "h">>
\* 'fix docs'
DescFixDocs == <<"f", "i", "x", " ", "d", "o", "c", "s">>
\* 'Update README'
DescReadme == <<"U", "p", "d", "a", "t", "e", " ", "R", "E", "A", "D", "M", "E">>
\* 'unit Tests'
DescTests == <<"u", "n", "i", "t", " ", "T", "e", "s", "t", "s">>
\* 'cleanup'
DescCleanup == <<"c", "l", "e", "a", "n", "u", "p">>
\* 'latest docs'
DescLatest == <<"l", "a", "t", "e", "s", "t", " ", "d", "o", "c", "s">>
\* 'add bugfix'
DescBugfix == <<"a", "d", "d", " ", "b", "u", "g", "f", "i", "x">>
\* ''
DescEmpty == <<>>

Descriptions ==
  {DescLogin, DescCrash, DescFixDocs, DescReadme, DescTests, DescCleanup,
   DescLatest, DescBugfix, DescEmpty}

\* 'keyword' in change.lower()
Mentions(change, keyword) == Contains(Lower(change), keyword)

\* a classification that looks for add/new first
ClassifyFeatFirst(change) ==
  IF Mentions(change, <<"a", "d", "d">>) \/ Mentions(change, <<"n", "e", "w">>)
  THEN "feat"
  ELSE IF Mentions(change, <<"t", "e", "s", "t">>)
  THEN "test"
  ELSE IF Mentions(change, <<"d", "o", "c">>)
          \/ Mentions(change, <<"r", "e", "a", "d", "m", "e">>)
  THEN "docs"
  ELSE IF Mentions(change, <<"f", "i", "x">>) \/ Mentions(change, <<"b", "u", "g">>)
  THEN "fix"
  ELSE "refactor"

\* lines 703-713: the change type of one description
ClassifyChange(change) ==
  IF Mentions(change, <<"t", "e", "s", "t">>)
  THEN "test"
  ELSE IF Mentions(change, <<"d", "o", "c">>)
          \/ Mentions(change, <<"r", "e", "a", "d", "m", "e">>)
  THEN "docs"
  ELSE IF Mentions(change, <<"f", "i", "x">>) \/ Mentions(change, <<"b", "u", "g">>)
  THEN "fix"
  ELSE IF Mentions(change, <<"a", "d", "d">>) \/ Mentions(change, <<"n", "e", "w">>)
  THEN "feat"
  ELSE "refactor"

\* change_types
ChangeTypes(file_changes) ==
  {ClassifyChange(file_changes[k]) : k \in 1..Len(file_changes)}

\* f"<type>: ... ({len(file_changes)} files)"
CommitMessage(type, file_changes) == [type |-> type, files |-> Len(file_changes)]

\* DevAcceleratorEngine.generate_commit_message(file_changes)
GenerateCommitMessage(file_changes) ==
  IF file_changes = <<>> THEN [type |-> "chore"]
  ELSE IF "feat" \in ChangeTypes(file_changes) THEN CommitMessage("feat", file_changes)
  ELSE IF "fix" \in ChangeTypes(file_changes) THEN CommitMessage("fix", file_changes)
  ELSE IF "test" \in ChangeTypes(file_changes) THEN CommitMessage("test", file_changes)
  ELSE IF "docs" \in ChangeTypes(file_changes) THEN CommitMessage("docs", file_changes)
  ELSE CommitMessage("refactor", file_changes)

\* the position of the first comma of a text, 0 when it has none
FirstComma(text) ==
  IF \E k \in 1..Len(text) : text[k] = ","
  THEN CHOOSE k \in 1..Len(text) : text[k] = "," /\ \A j \in 1..(k - 1) : text[j] # ","
  ELSE 0

\* a split that gives no piece for the empty text, as split() without a
\* separator does
RECURSIVE SplitCommaDroppingEmpty(_)
SplitCommaDroppingEmpty(text) ==
  IF text = <<>> THEN <<>>
  ELSE IF FirstComma(text) = 0 THEN <<text>>
  ELSE <<SubSeq(text, 1, FirstComma(text) - 1)>>
       \o SplitCommaDroppingEmpty(SubSeq(text, FirstComma(text) + 1, Len(text)))

\* changes_description.split(',')
RECURSIVE SplitComma(_)
SplitComma(text) ==
  IF FirstComma(text) = 0 THEN <<text>>
  ELSE <<SubSeq(text, 1, FirstComma(text) - 1)>>
       \o SplitComma(SubSeq(text, FirstComma(text) + 1, Len(text)))

\* the text a caller makes of its descriptions, separated by commas
RECURSIVE JoinComma(_)
JoinComma(list) ==
  IF list = <<>> THEN <<>>
  ELSE IF Len(list) = 1 THEN list[1]
  ELSE list[1] \o <<",">> \o JoinComma(Tail(list))

\* generate_commit_message(changes_description), the tool
GenerateCommitMessageTool(changes_description) ==
  GenerateCommitMessage(SplitComma(changes_description))

(***************************************************************************)
(* ContextAwareEngine.  The project directory is described by what the     *)
(* engine reads of it: the lines of requirements.txt, the double-quoted    *)
(* strings of pyproject.toml, whether setup.py and Pipfile exist, the      *)
(* names of its sub-directories, and for every .py file below it the path  *)
(* relative to the project directory, the length of the content, the       *)
(* number of lines that hold 'def ', the number of '"""' and whether it    *)
(* can be read.  Texts are sequences of characters.                        *)
(***************************************************************************)

\* the fields of a ContextAwareEngine after __init__
NewContextAwareEngine ==
  [project_root |-> "proj", tech_debt_score |-> 0, dependency_issues |-> <<>>]

\* the offset of the first occurrence of p in s, -1 when there is none
FirstOffset(s, p) ==
  IF Contains(s, p)
  THEN CHOOSE o \in 0..(Len(s) - Len(p)) :
         /\ \A k \in 1..Len(p) : s[o + k] = p[k]
         /\ \A q \in 0..(o - 1) : \E k \in 1..Len(p) : s[q + k] # p[k]
  ELSE -1

\* s.split(sep)[0]
BeforeFirst(s, sep) ==
  IF FirstOffset(s, sep) = -1 THEN s ELSE SubSeq(s, 1, FirstOffset(s, sep))

\* line.strip()
RECURSIVE Strip(_)
Strip(s) ==
  IF s = <<>> THEN s
  ELSE IF Head(s) = " " THEN Strip(Tail(s))
  ELSE IF s[Len(s)] = " " THEN Strip(SubSeq(s, 1, Len(s) - 1))
  ELSE s

\* line.split('==')[0].split('>=')[0].split('<=')[0]
DepName(line) ==
  BeforeFirst(BeforeFirst(BeforeFirst(line, <<"=", "=">>), <<">", "=">>), <<"<", "=">>)

\* the dependency a requirements.txt line gives, if any
RequirementOf(line) ==
  IF Strip(line) # <<>> /\ Head(Strip(line)) # "#"
  THEN <<DepName(Strip(line))>>
  ELSE <<>>

\* the dependency a double-quoted string of pyproject.toml gives, if any
QuotedDepOf(dep) ==
  IF ~Contains(dep, <<".">>) THEN <<BeforeFirst(dep, <<">", "=">>)>> ELSE <<>>

\* _parse_dependencies on requirements.txt and on pyproject.toml; a file
\* that is absent or cannot be decoded gives no dependency
ParseRequirements(manifest) ==
  IF manifest.state # "text" THEN <<>>
  ELSE Flatten([k \in 1..Len(manifest.lines) |-> RequirementOf(manifest.lines[k])])

ParsePyproject(manifest) ==
  IF manifest.state # "text" THEN <<>>
  ELSE Flatten([k \in 1..Len(manifest.quoted) |-> QuotedDepOf(manifest.quoted[k])])

\* the dependencies of the manifests in the order of req_files; setup.py
\* and Pipfile end neither in .txt nor in .toml and give none
ParseDependencies(proj) ==
  ParseRequirements(proj.requirements_txt) \o ParsePyproject(proj.pyproject_toml)

FrameworkKeywords ==
  { <<"d", "j", "a", "n", "g", "o">>, <<"f", "l", "a", "s", "k">>,
    <<"f", "a", "s", "t", "a", "p", "i">>, <<"t", "o", "r", "n", "a", "d", "o">> }
DatabaseKeywords ==
  { <<"s", "q", "l", "a", "l", "c", "h", "e", "m", "y">>,
    <<"d", "j", "a", "n", "g", "o", "-", "o", "r", "m">>,
    <<"p", "y", "m", "o", "n", "g", "o">> }
TestingKeywords ==
  { <<"p", "y", "t", "e", "s", "t">>, <<"u", "n", "i", "t", "t", "e", "s", "t">>,
    <<"n", "o", "s", "e">> }

\* lines 537-544: the list a dependency is appended to
DependencyClass(dep) ==
  IF \E fw \in FrameworkKeywords : Mentions(dep, fw) THEN "frameworks"
  ELSE IF \E db \in DatabaseKeywords : Mentions(dep, db) THEN "databases"
  ELSE IF \E test \in TestingKeywords : Mentions(dep, test) THEN "testing_frameworks"
  ELSE "none"

OfClass(dependencies, class) ==
  SelectSeq(dependencies, LAMBDA dep : DependencyClass(dep) = class)

\* ContextAwareEngine._identify_tech_stack
IdentifyTechStack(proj) ==
  [primary_language |-> "Python",
   frameworks |-> OfClass(ParseDependencies(proj), "frameworks"),
   databases |-> OfClass(ParseDependencies(proj), "databases"),
   testing_frameworks |-> OfClass(ParseDependencies(proj), "testing_frameworks"),
   dependencies |-> ParseDependencies(proj)]

\* dirs: the sub-directories whose name does not start with a dot
VisibleDirs(proj) == {d \in proj.dirs : Head(d) # "."}

DirNamed(proj, names) == \E d \in VisibleDirs(proj) : Lower(d) \in names

\* ContextAwareEngine._detect_architecture_pattern
DetectArchitecturePattern(proj) ==
  IF DirNamed(proj, { <<"m", "o", "d", "e", "l", "s">>, <<"v", "i", "e", "w", "s">>,
                      <<"c", "o", "n", "t", "r", "o", "l", "l", "e", "r", "s">> })
  THEN "MVC (Model-View-Controller)"
  ELSE IF DirNamed(proj, { <<"s", "e", "r", "v", "i", "c", "e", "s">>, <<"a", "p", "i">>,
                           <<"g", "a", "t", "e", "w", "a", "y">> })
  THEN "Microservices"
  ELSE IF DirNamed(proj, { <<"d", "o", "m", "a", "i", "n">>,
                           <<"i", "n", "f", "r", "a", "s", "t", "r", "u", "c", "t", "u", "r", "e">>,
                           <<"a", "p", "p", "l", "i", "c", "a", "t", "i", "o", "n">> })
  THEN "Layered Architecture"
  ELSE IF DirNamed(proj, { <<"s", "r", "c">> }) \/ Cardinality(VisibleDirs(proj)) > 5
  THEN "Package-based"
  ELSE "Simple/Flat Structure"

\* ContextAwareEngine._analyze_dependency_health
AnalyzeDependencyHealth ==
  [total_dependencies |-> 0, outdated_dependencies |-> <<>>,
   security_vulnerabilities |-> <<>>, dependency_conflicts |-> <<>>,
   health_score |-> 1000]

\* os.path.join(root, file) of a file below the project directory
ProjectRootChars ==
  <<"/", "U", "s", "e", "r", "s", "/", "y", "u", "a", "n", "q", "u", "a", "n", "/",
    "c", "o", "d", "e", "_", "p", "r", "o", "j", "e", "c", "t", "/",
    "G", "a", "l", "a", "x", "y", "A", "I", "/", "M", "C", "P", "-", "F", "r", "e", "s", "h">>
FullPath(file) == ProjectRootChars \o <<"/">> \o file.path

LongContent == 2000

\* lines 642-644: what one file that can be read adds to the factors
\* a long_functions increment of at most 1 per file
LongFunctionsAsFlag(file) ==
  IF file.chars > LongContent /\ file.def_lines >= 1 THEN 1 ELSE 0

LongFunctionsOf(file) == IF file.chars > LongContent THEN file.def_lines ELSE 0
MissingTestsOf(file) ==
  IF ~Mentions(FullPath(file), <<"t", "e", "s", "t">>) THEN 1 ELSE 0
PoorDocumentationOf(file) == IF file.triple_quotes < 2 THEN 1 ELSE 0

RECURSIVE SumOver(_, _)
SumOver(files, k) ==
  IF files = <<>> THEN 0
  ELSE (IF ~Head(files).readable THEN 0
        ELSE IF k = "long_functions" THEN LongFunctionsOf(Head(files))
        ELSE IF k = "missing_tests" THEN MissingTestsOf(Head(files))
        ELSE IF k = "poor_documentation" THEN PoorDocumentationOf(Head(files))
        ELSE 0)
       + SumOver(Tail(files), k)

DebtFactorNames ==
  {"code_duplication", "long_functions", "complex_classes", "missing_tests",
   "poor_documentation"}

\* debt_factors after the loop over the .py files
DebtFactors(proj) == [k \in DebtFactorNames |-> SumOver(proj.py_files, k)]

\* sum(debt_factors.values())
TotalDebt(debt_factors) ==
  debt_factors.code_duplication + debt_factors.long_functions
  + debt_factors.complex_classes + debt_factors.missing_tests
  + debt_factors.poor_documentation

DebtLevel(total_score) ==
  IF total_score < 10 THEN "Low" ELSE IF total_score < 25 THEN "Medium" ELSE "High"

\* ContextAwareEngine._get_debt_reduction_actions
GetDebtReductionActions(debt_factors) ==
  (IF debt_factors.long_functions > 3 THEN <<"split_long_functions">> ELSE <<>>)
  \o (IF debt_factors.missing_tests > 5 THEN <<"add_unit_tests">> ELSE <<>>)
  \o (IF debt_factors.poor_documentation > 3 THEN <<"improve_documentation">> ELSE <<>>)

\* the dictionary _calculate_tech_debt returns for the factors
TechDebtOf(debt_factors) ==
  [debt_factors |-> debt_factors,
   total_score |-> TotalDebt(debt_factors),
   debt_level |-> DebtLevel(TotalDebt(debt_factors)),
   recommended_actions |-> GetDebtReductionActions(debt_factors)]

\* ContextAwareEngine._calculate_tech_debt
CalculateTechDebt(proj) == TechDebtOf(DebtFactors(proj))

\* ContextAwareEngine._generate_project_recommendations
GenerateProjectRecommendations(tech_stack, tech_debt) ==
  (IF tech_stack.testing_frameworks = <<>> THEN <<"add_test_framework">> ELSE <<>>)
  \o (IF tech_debt.debt_level = "High" THEN <<"plan_refactoring">> ELSE <<>>)
  \o (IF /\ "architecture_pattern" \in DOMAIN tech_stack
         /\ tech_stack.architecture_pattern = "Simple/Flat Structure"
      THEN <<"modularize">> ELSE <<>>)

\* lines 503-514: the dictionary built from the parts
ProjectContext(project_root, tech_stack, architecture_pattern, tech_debt) ==
  [project_root |-> project_root,
   tech_stack |-> tech_stack,
   architecture_pattern |-> architecture_pattern,
   dependency_health |-> AnalyzeDependencyHealth,
   tech_debt_assessment |-> tech_debt,
   recommendations |-> GenerateProjectRecommendations(tech_stack, tech_debt)]

\* an analyze_project_context that keeps the score it computed
AnalyzeProjectContextKeepingScore(ctx, proj) ==
  IF ~proj.listable
  THEN [ctx |-> ctx, result |-> [error |-> <<"context_failed", "FileNotFoundError">>]]
  ELSE [ctx |-> [ctx EXCEPT !.tech_debt_score = CalculateTechDebt(proj).total_score],
        result |-> ProjectContext(ctx.project_root, IdentifyTechStack(proj),
                                  DetectArchitecturePattern(proj),
                                  CalculateTechDebt(proj))]

\* ContextAwareEngine.analyze_project_context: the fields it leaves and the
\* value it returns; os.listdir of a missing project directory raises in
\* _detect_architecture_pattern and the handler returns the error
AnalyzeProjectContext(ctx, proj) ==
  IF ~proj.listable
  THEN [ctx |-> ctx, result |-> [error |-> <<"context_failed", "FileNotFoundError">>]]
  ELSE [ctx |-> ctx,
        result |-> ProjectContext(ctx.project_root, IdentifyTechStack(proj),
                                  DetectArchitecturePattern(proj),
                                  CalculateTechDebt(proj))]

(***************************************************************************)
(* DevAcceleratorEngine.generate_function_docstring.  A function_code is   *)
(* described by what the operation reads of it: whether it parses, the     *)
(* kind of its first statement, and for a definition the name and the      *)
(* names of args.args.  The docstring is given by its title line and the   *)
(* arguments that get a line in its Args section.                          *)
(***************************************************************************)
UpperChar(c) ==
  CASE c = "a" -> "A" [] c = "b" -> "B" [] c = "c" -> "C" [] c = "d" -> "D"
    [] c = "e" -> "E" [] c = "f" -> "F" [] c = "g" -> "G" [] c = "h" -> "H"
    [] c = "i" -> "I" [] c = "j" -> "J" [] c = "k" -> "K" [] c = "l" -> "L"
    [] c = "m" -> "M" [] c = "n" -> "N" [] c = "o" -> "O" [] c = "p" -> "P"
    [] c = "q" -> "Q" [] c = "r" -> "R" [] c = "s" -> "S" [] c = "t" -> "T"
    [] c = "u" -> "U" [] c = "v" -> "V" [] c = "w" -> "W" [] c = "x" -> "X"
    [] c = "y" -> "Y" [] c = "z" -> "Z" [] OTHER -> c

IsCased(c) == LowerChar(c) # c \/ UpperChar(c) # c

\* name.replace("_", " ")
ReplaceUnderscores(s) == [k \in 1..Len(s) |-> IF s[k] = "_" THEN " " ELSE s[k]]

\* str.title(): a letter after a letter is lowered, any other one raised
Title(s) ==
  [k \in 1..Len(s) |->
     IF k > 1 /\ IsCased(s[k - 1]) THEN LowerChar(s[k]) ELSE UpperChar(s[k])]

\* '"""Function description."""'
Placeholder == [placeholder |-> TRUE]

\* DevAcceleratorEngine.generate_function_docstring(func_code)
GenerateFunctionDocstring(code) ==
  IF ~code.parses \/ code.first # "FunctionDef"
  THEN Placeholder
  ELSE [title |-> Title(ReplaceUnderscores(code.name)), args |-> code.args]
\* the project directory does not exist
ProjMissing ==
  [listable |-> FALSE,
   others |-> 0,
   requirements_txt |-> [state |-> "absent", lines |-> <<>>],
   pyproject_toml |-> [state |-> "absent", quoted |-> <<>>],
   setup_py |-> FALSE,
   pipfile |-> FALSE,
   dirs |-> {},
   py_files |-> <<>>]

\* one documented module, nothing else
ProjFlat ==
  [listable |-> TRUE,
   others |-> 1,
   requirements_txt |-> [state |-> "absent", lines |-> <<>>],
   pyproject_toml |-> [state |-> "absent", quoted |-> <<>>],
   setup_py |-> FALSE,
   pipfile |-> FALSE,
   dirs |-> {},
   py_files |-> <<[path |-> <<"m", "a", "i", "n", ".", "p", "y">>, chars |-> 20, def_lines |-> 0, triple_quotes |-> 2, readable |-> TRUE]>>]

\* a web application with requirements.txt
ProjWeb ==
  [listable |-> TRUE,
   others |-> 1,
   requirements_txt |-> [state |-> "text", lines |-> <<<<"D", "j", "a", "n", "g", "o", "=", "=", "4", ".", "2">>, <<" ", " ", "p", "y", "t", "e", "s", "t", " ", ">", "=", " ", "7", " ">>, <<"#", " ", "f", "l", "a", "s", "k">>, <<>>, <<"F", "l", "a", "s", "k", "-", "S", "Q", "L", "A", "l", "c", "h", "e", "m", "y">>, <<"r", "e", "q", "u", "e", "s", "t", "s", "<", "=", "2", ".", "0">>, <<"p", "y", "m", "o", "n", "g", "o">>, <<>>>>],
   pyproject_toml |-> [state |-> "absent", quoted |-> <<>>],
   setup_py |-> FALSE,
   pipfile |-> FALSE,
   dirs |-> {<<".", "g", "i", "t">>, <<"M", "o", "d", "e", "l", "s">>, <<"t", "e", "s", "t", "s">>},
   py_files |-> <<[path |-> <<"M", "o", "d", "e", "l", "s", "/", "u", "s", "e", "r", ".", "p", "y">>, chars |-> 32, def_lines |-> 1, triple_quotes |-> 2, readable |-> TRUE],
                [path |-> <<"a", "p", "p", ".", "p", "y">>, chars |-> 6, def_lines |-> 0, triple_quotes |-> 0, readable |-> TRUE],
                [path |-> <<"t", "e", "s", "t", "s", "/", "t", "e", "s", "t", "_", "a", "p", "p", ".", "p", "y">>, chars |-> 6, def_lines |-> 0, triple_quotes |-> 0, readable |-> TRUE]>>]

\* a package with pyproject.toml, setup.py and Pipfile
ProjPkg ==
  [listable |-> TRUE,
   others |-> 1,
   requirements_txt |-> [state |-> "absent", lines |-> <<>>],
   pyproject_toml |-> [state |-> "text", quoted |-> <<<<"d", "e", "m", "o">>, <<"0", ".", "1", ".", "0">>, <<"f", "a", "s", "t", "a", "p", "i", ">", "=", "1">>, <<"n", "o", "s", "e">>, <<"m", "y", ".", "p", "k", "g">>>>],
   setup_py |-> TRUE,
   pipfile |-> TRUE,
   dirs |-> {<<"a">>, <<"b">>, <<"c">>, <<"d">>, <<"e">>, <<"f">>},
   py_files |-> <<[path |-> <<"s", "e", "t", "u", "p", ".", "p", "y">>, chars |-> 14, def_lines |-> 0, triple_quotes |-> 2, readable |-> TRUE]>>]

\* long undocumented modules, an undecodable manifest and module
ProjDebt ==
  [listable |-> TRUE,
   others |-> 4,
   requirements_txt |-> [state |-> "undecodable", lines |-> <<>>],
   pyproject_toml |-> [state |-> "absent", quoted |-> <<>>],
   setup_py |-> FALSE,
   pipfile |-> FALSE,
   dirs |-> {<<"s", "e", "r", "v", "i", "c", "e", "s">>},
   py_files |-> <<[path |-> <<"f", "o", "u", "r", ".", "p", "y">>, chars |-> 2169, def_lines |-> 7, triple_quotes |-> 0, readable |-> TRUE],
                [path |-> <<"o", "n", "e", ".", "p", "y">>, chars |-> 2169, def_lines |-> 7, triple_quotes |-> 0, readable |-> TRUE],
                [path |-> <<"s", "e", "r", "v", "i", "c", "e", "s", "/", "b", "a", "d", ".", "p", "y">>, chars |-> 0, def_lines |-> 0, triple_quotes |-> 0, readable |-> FALSE],
                [path |-> <<"t", "h", "r", "e", "e", ".", "p", "y">>, chars |-> 2169, def_lines |-> 7, triple_quotes |-> 0, readable |-> TRUE],
                [path |-> <<"t", "w", "o", ".", "p", "y">>, chars |-> 2169, def_lines |-> 7, triple_quotes |-> 0, readable |-> TRUE]>>]

\* six short undocumented modules
ProjLayered ==
  [listable |-> TRUE,
   others |-> 4,
   requirements_txt |-> [state |-> "absent", lines |-> <<>>],
   pyproject_toml |-> [state |-> "absent", quoted |-> <<>>],
   setup_py |-> FALSE,
   pipfile |-> FALSE,
   dirs |-> {<<"d", "o", "m", "a", "i", "n">>},
   py_files |-> <<[path |-> <<"c", ".", "p", "y">>, chars |-> 6, def_lines |-> 0, triple_quotes |-> 0, readable |-> TRUE],
                [path |-> <<"d", ".", "p", "y">>, chars |-> 6, def_lines |-> 0, triple_quotes |-> 0, readable |-> TRUE],
                [path |-> <<"d", "o", "m", "a", "i", "n", "/", "a", ".", "p", "y">>, chars |-> 6, def_lines |-> 0, triple_quotes |-> 0, readable |-> TRUE],
                [path |-> <<"d", "o", "m", "a", "i", "n", "/", "b", ".", "p", "y">>, chars |-> 18, def_lines |-> 1, triple_quotes |-> 0, readable |-> TRUE],
                [path |-> <<"e", ".", "p", "y">>, chars |-> 6, def_lines |-> 0, triple_quotes |-> 0, readable |-> TRUE],
                [path |-> <<"f", ".", "p", "y">>, chars |-> 6, def_lines |-> 0, triple_quotes |-> 0, readable |-> TRUE]>>]

\* def get_user2name(user_id, full=True): |     return 1
CodeGetUser ==
  [parses |-> TRUE, first |-> "FunctionDef", name |-> <<"g", "e", "t", "_", "u", "s", "e", "r", "2", "n", "a", "m", "e">>,
   args |-> <<<<"u", "s", "e", "r", "_", "i", "d">>, <<"f", "u", "l", "l">>>>]

\* def run(): |     pass
CodeRun ==
  [parses |-> TRUE, first |-> "FunctionDef", name |-> <<"r", "u", "n">>,
   args |-> <<>>]

\* def Load_DATA(a, *b, c=1, **d): |     pass
CodeKwOnly ==
  [parses |-> TRUE, first |-> "FunctionDef", name |-> <<"L", "o", "a", "d", "_", "D", "A", "T", "A">>,
   args |-> <<<<"a">>>>]

\* async def fetch_all(x): |     pass
CodeAsync ==
  [parses |-> TRUE, first |-> "AsyncFunctionDef", name |-> <<"f", "e", "t", "c", "h", "_", "a", "l", "l">>,
   args |-> <<<<"x">>>>]

\* class A: |     pass
CodeClass ==
  [parses |-> TRUE, first |-> "ClassDef", name |-> <<"A">>,
   args |-> <<>>]

\* x = 1 | def f(y): |     pass
CodeSecond ==
  [parses |-> TRUE, first |-> "Assign", name |-> <<>>,
   args |-> <<>>]

\* def broken(:
CodeBroken ==
  [parses |-> FALSE, first |-> "none", name |-> <<>>,
   args |-> <<>>]

\* the empty text
CodeEmpty ==
  [parses |-> TRUE, first |-> "none", name |-> <<>>,
   args |-> <<>>]

(***************************************************************************)
(* State.                                                                  *)
(*   fs                the content of every location, or Absent; no file   *)
(*                     changes while the calls are made                    *)
(*   project           the project directory the tools fall back to,       *)
(*                     "/Users/yuanquan/code_project/GalaxyAI/MCP-Fresh"   *)
(*   issues, function_metrics, class_metrics                               *)
(*                     the accumulators of the shared engine `analyzer`    *)
(*   ret               the last call made and the value it returned; for   *)
(*                     analyze_file also `before`, the value it returned   *)
(*                     for the same path the last time (NoResult when it   *)
(*                     was never analysed), and                            *)
(*                     `between`, whether the call before this one was an  *)
(*                     analyze_file of another path                        *)
(*   seen              per path, the value analyze_file last returned for  *)
(*                     it; NoHistory where no history is kept              *)
(*   invocations       the analyze_file invocations in progress when calls *)
(*                     may overlap: each one's position, argument, parsed  *)
(*                     source and returned value                           *)
(*   context_analyzer  the fields of the module's ContextAwareEngine       *)
(***************************************************************************)
VARIABLES fs, project, issues, function_metrics, class_metrics, ret, seen, invocations,
          context_analyzer

vars ==
  <<fs, project, issues, function_metrics, class_metrics, ret, seen, invocations,
    context_analyzer>>

Engine == [issues |-> issues, function_metrics |-> function_metrics,
           class_metrics |-> class_metrics]

NoCall == [op |-> "none"]
NoResult == [none |-> TRUE]
NoHistory == <<>>
NoInvocations == <<>>

SetEngine(eng) ==
  /\ issues' = eng.issues
  /\ function_metrics' = eng.function_metrics
  /\ class_metrics' = eng.class_metrics

\* the paths analyze_file is called with directly
EnginePaths == PyPaths

\* what is in the project directory besides a.py: whether the directory can
\* be listed at all, and how many other .py files it holds
ListableProject(others) == [listable |-> TRUE, others |-> others]
MissingProject == [listable |-> FALSE, others |-> 0]

Init ==
  /\ fs \in [Locations -> Contents \cup {Absent}]
  /\ fs[TxtLoc] = Absent
  /\ project = ListableProject(0)
  /\ issues = <<>>
  /\ function_metrics = <<>>
  /\ class_metrics = <<>>
  /\ ret = NoCall
  /\ seen = [p \in EnginePaths |-> NoResult]
  /\ invocations = NoInvocations
  /\ context_analyzer = NewContextAwareEngine

\* the engine and the returned value after a call that left and returned out
Return(op, file_path, out) ==
  /\ SetEngine(out.eng)
  /\ ret' = [op |-> op, file_path |-> file_path, result |-> out.result,
             before |-> IF seen = NoHistory \/ op # "analyze_file"
                        THEN NoResult ELSE seen[file_path],
             between |-> ret.op = "analyze_file" /\ ret.file_path # file_path]
  /\ seen' = IF seen = NoHistory \/ op # "analyze_file" THEN seen
             ELSE [seen EXCEPT ![file_path] = out.result]
  /\ UNCHANGED <<fs, project, invocations, context_analyzer>>

\* analyzer.analyze_file(file_path)
CallAnalyzeFile(file_path) ==
  Return("analyze_file", file_path, AnalyzeFile(Engine, fs, file_path))

Next == \E p \in EnginePaths : CallAnalyzeFile(p)

Spec == Init /\ [][Next]_vars

(***************************************************************************)
(* The result-assembly step of analyze_file (the summary, the copies of    *)
(* the accumulators and _calculate_quality_score) on its own, applied to   *)
(* an engine whose issue list is any sequence of at most MaxIssues issues  *)
(* as the visitors build them.                                             *)
(***************************************************************************)
MaxIssues == 6

\* the severity, category, message and confidence each rule builds its issue with
RuleIssues ==
  { CodeIssue("warning", "logic", "naming_get", 0, AbsPath("cwd", PyName), 1, ConfNaming),
    CodeIssue("warning", "architecture", "complexity", 11, AbsPath("cwd", PyName), 1, ConfComplexity),
    CodeIssue("suggestion", "architecture", "param_count", 6, AbsPath("cwd", PyName), 1, ConfParamCount),
    CodeIssue("warning", "performance", "nested_loop", 0, AbsPath("cwd", PyName), 1, ConfNestedLoop),
    CodeIssue("critical", "security", "hardcoded_secret", 0, AbsPath("cwd", PyName), 1, ConfSecret),
    CodeIssue("critical", "security", "eval", 0, AbsPath("cwd", PyName), 1, ConfEvalExec) }

InitScore ==
  /\ fs = [l \in Locations |-> Absent]
  /\ project = ListableProject(0)
  /\ issues \in UNION {[1..n -> RuleIssues] : n \in 0..MaxIssues}
  /\ function_metrics = <<>>
  /\ class_metrics = <<>>
  /\ ret = NoCall
  /\ seen = [p \in EnginePaths |-> NoResult]
  /\ invocations = NoInvocations
  /\ context_analyzer = NewContextAwareEngine

\* lines 96-108 of analyze_file: build the dictionary from the accumulators
AssembleResult ==
  /\ ret = NoCall
  /\ ret' = [op |-> "assemble", file_path |-> AbsPath("cwd", PyName),
             result |-> AnalysisResult(Engine, AbsPath("cwd", PyName))]
  /\ UNCHANGED <<fs, project, issues, function_metrics, class_metrics, seen, invocations, context_analyzer>>

NextScore == AssembleResult

SpecScore == InitScore /\ [][NextScore]_vars


(***************************************************************************)
(* The tools called one after another, on any file system and project      *)
(* directory; the tools of professional_code_analyzer.py share the engine  *)
(* `analyzer`.                                                             *)
(***************************************************************************)
MaxOthers == 11

Projects == {MissingProject, ListableProject(0), ListableProject(MaxOthers)}

\* the paths the tools are called with
ToolPaths == Paths

InitTools ==
  /\ fs \in [Locations -> Contents \cup {Absent}]
  /\ fs[TxtLoc] \in {Absent, "Clean"}
  /\ project \in Projects
  \* nothing exists under a project directory that does not exist
  /\ ~project.listable => fs[<<"proj", PyName>>] = Absent
  /\ issues = <<>>
  /\ function_metrics = <<>>
  /\ class_metrics = <<>>
  /\ ret = NoCall
  /\ seen = NoHistory
  /\ invocations = NoInvocations
  /\ context_analyzer = NewContextAwareEngine

\* the returned value of a tool that does not use the engine
ReturnValue(op, file_path, result) ==
  /\ ret' = [op |-> op, file_path |-> file_path, result |-> result]
  /\ UNCHANGED <<fs, project, issues, function_metrics, class_metrics, seen, invocations, context_analyzer>>

CallAnalyzeCodeIntelligence(file_path) ==
  Return("analyze_code_intelligence", file_path,
         AnalyzeCodeIntelligence(Engine, fs, file_path))

CallSuggestRefactoring(file_path) ==
  ReturnValue("suggest_refactoring", file_path, SuggestRefactoring(fs, file_path))

CallGetComprehensiveAnalysis(file_path) ==
  Return("get_comprehensive_analysis", file_path,
         GetComprehensiveAnalysis(Engine, fs, file_path))

CallGetQualityReport(file_path) ==
  Return("get_quality_report", file_path, GetQualityReport(Engine, fs, file_path))

CallAnalyzePython(file_path) ==
  \E pos \in 1..(project.others + 1) :
    ReturnValue("analyze_python", file_path,
                AnalyzePython(fs, project, pos, file_path))

NextTools ==
  \E p \in ToolPaths :
    \/ CallAnalyzeCodeIntelligence(p)
    \/ CallSuggestRefactoring(p)
    \/ CallGetComprehensiveAnalysis(p)
    \/ CallGetQualityReport(p)
    \/ CallAnalyzePython(p)
    \/ (p \in EnginePaths /\ CallAnalyzeFile(p))

SpecTools == InitTools /\ [][NextTools]_vars

(***************************************************************************)
(* The commit message operations on lists of descriptions.                 *)
(***************************************************************************)
MaxChanges == 2
ChangeLists == UNION {[1..n -> Descriptions] : n \in 0..MaxChanges}

\* the calls of the two operations on each list of descriptions, with what
\* they return
EngineCalls ==
  {[op |-> "DevAcceleratorEngine.generate_commit_message",
    file_changes |-> list,
    result |-> GenerateCommitMessage(list)] : list \in ChangeLists}
ToolCalls ==
  {[op |-> "generate_commit_message",
    file_changes |-> SplitComma(JoinComma(list)),
    result |-> GenerateCommitMessageTool(JoinComma(list))] : list \in ChangeLists}

InitCommit ==
  /\ fs = [l \in Locations |-> Absent]
  /\ project = ListableProject(0)
  /\ issues = <<>>
  /\ function_metrics = <<>>
  /\ class_metrics = <<>>
  /\ ret = NoCall
  /\ seen = NoHistory
  /\ invocations = NoInvocations
  /\ context_analyzer = NewContextAwareEngine

\* dev_accelerator.generate_commit_message(file_changes) returns
CallEngineGenerateCommitMessage(call) ==
  /\ ret' = call
  /\ UNCHANGED <<fs, project, issues, function_metrics, class_metrics, seen, invocations, context_analyzer>>

\* generate_commit_message(changes_description), called with the
\* descriptions joined by commas, returns
CallGenerateCommitMessage(call) ==
  /\ ret' = call
  /\ UNCHANGED <<fs, project, issues, function_metrics, class_metrics, seen, invocations, context_analyzer>>

NextCommit ==
  \/ \E call \in EngineCalls : CallEngineGenerateCommitMessage(call)
  \/ \E call \in ToolCalls : CallGenerateCommitMessage(call)

SpecCommit == InitCommit /\ [][NextCommit]_vars

(***************************************************************************)
(* The project context and development operations called in any order on   *)
(* the module's context_analyzer and dev_accelerator, and the project      *)
(* directory changing between calls.  seen keeps, per operation, the       *)
(* argument and the value of its last call; ret.before is the value the    *)
(* operation returned the last time it was called with the same argument   *)
(* provided that was its last call, and ret.between tells whether the call *)
(* before this one was of another operation.                               *)
(***************************************************************************)
ContextProjects == {ProjMissing, ProjFlat, ProjWeb, ProjPkg, ProjDebt, ProjLayered}

\* the function codes generate_function_docstring is given
FunctionCodes == {CodeGetUser, CodeKwOnly, CodeAsync, CodeBroken}

\* the commit message calls made here
ShortCalls ==
  {call \in EngineCalls :
     call.file_changes \in {<<>>, <<DescLogin>>, <<DescCrash>>, <<DescCleanup>>}}

\* the snippets suggest_refactoring is given
Snippets == {"Big", "Syntax"}

ContextOps ==
  {"analyze_project_context", "generate_commit_message",
   "generate_function_docstring", "suggest_refactoring"}

InitContext ==
  /\ fs = [l \in Locations |-> Absent]
  /\ project \in ContextProjects
  /\ issues = <<>>
  /\ function_metrics = <<>>
  /\ class_metrics = <<>>
  /\ ret = NoCall
  /\ seen = [o \in ContextOps |-> NoCall]
  /\ invocations = NoInvocations
  /\ context_analyzer = NewContextAwareEngine

\* the value of the last call of op if that call had the argument arg
Before(op, arg) ==
  IF seen[op] # NoCall /\ seen[op].arg = arg
  THEN [known |-> TRUE, result |-> seen[op].result]
  ELSE [known |-> FALSE]

\* the operation op called with arg returns result
Answer(op, arg, result) ==
  /\ ret' = [op |-> op, arg |-> arg, result |-> result, before |-> Before(op, arg),
             between |-> ret.op \notin {op, "none"}]
  /\ seen' = [seen EXCEPT ![op] = [arg |-> arg, result |-> result]]
  /\ UNCHANGED <<fs, project, issues, function_metrics, class_metrics, invocations>>

\* context_analyzer.analyze_project_context() on the project directory
CallAnalyzeProjectContext ==
  /\ context_analyzer' = AnalyzeProjectContext(context_analyzer, project).ctx
  /\ Answer("analyze_project_context", <<>>,
            AnalyzeProjectContext(context_analyzer, project).result)

\* dev_accelerator.generate_commit_message(file_changes)
CallDevGenerateCommitMessage(call) ==
  /\ Answer("generate_commit_message", call.file_changes, call.result)
  /\ UNCHANGED context_analyzer

\* dev_accelerator.generate_function_docstring(func_code)
CallGenerateFunctionDocstring(code) ==
  /\ Answer("generate_function_docstring", code, GenerateFunctionDocstring(code))
  /\ UNCHANGED context_analyzer

\* dev_accelerator.suggest_refactoring(code)
CallDevSuggestRefactoring(code) ==
  /\ Answer("suggest_refactoring", code, DevSuggestRefactoring(code))
  /\ UNCHANGED context_analyzer

\* the project directory becomes another one; what analyze_project_context
\* returned for the old one is forgotten
ChangeProject(proj) ==
  /\ proj # project
  /\ project' = proj
  /\ seen' = [seen EXCEPT !["analyze_project_context"] = NoCall]
  /\ ret' = NoCall
  /\ UNCHANGED <<fs, issues, function_metrics, class_metrics, invocations,
                 context_analyzer>>

NextContext ==
  \/ CallAnalyzeProjectContext
  \/ \E call \in ShortCalls : CallDevGenerateCommitMessage(call)
  \/ \E code \in FunctionCodes : CallGenerateFunctionDocstring(code)
  \/ \E code \in Snippets : CallDevSuggestRefactoring(code)
  \/ \E proj \in ContextProjects : ChangeProject(proj)

SpecContext == InitContext /\ [][NextContext]_vars

(***************************************************************************)
(* The results analyze_file has returned, as the callers keep them.  The   *)
(* three lists of a successful result are list objects: a result holds     *)
(* references to them, and what a caller reads in a result is what these   *)
(* objects hold at the time of reading.  The accumulators of the engine    *)
(* are the list objects owned by "engine", emptied and refilled in place   *)
(* by each analysis; the lists built for the n-th returned result are      *)
(* owned by "result" n.  Here seen keeps                                   *)
(*   held    the returned dictionaries with references for their lists,    *)
(*   heap    per returned result, the contents of the lists built for it,  *)
(*   taken   per returned result, what it read as when it was returned.    *)
(***************************************************************************)
MaxHeld == 3

ListFields == {"issues", "function_metrics", "class_metrics"}

\* the accumulator self.<field> of the engine
EngineList(field) == [owner |-> "engine", n |-> 0, field |-> field]

\* the list built for <field> of the n-th returned result
ResultList(n, field) == [owner |-> "result", n |-> n, field |-> field]

\* a dictionary whose lists are the accumulators themselves
HoldShared(result, n) ==
  IF IsError(result) THEN result
  ELSE [k \in DOMAIN result |->
          IF k \in ListFields THEN EngineList(k) ELSE result[k]]

\* lines 96-108: the dictionary returned as the n-th result; the three
\* comprehensions [asdict(x) for x in self.<field>] build new lists
Hold(result, n) ==
  IF IsError(result) THEN result
  ELSE [k \in DOMAIN result |->
          IF k \in ListFields THEN ResultList(n, k) ELSE result[k]]

\* the contents of the lists built for a returned result
Built(result) ==
  IF IsError(result) THEN [k \in ListFields |-> <<>>]
  ELSE [k \in ListFields |-> result[k]]

\* what the list object holds now
Deref(list) ==
  IF list.owner = "engine" THEN Engine[list.field]
  ELSE seen.heap[list.n][list.field]

\* what a caller reads now in a dictionary it was returned
Read(held) ==
  IF IsError(held) THEN held
  ELSE [k \in DOMAIN held |-> IF k \in ListFields THEN Deref(held[k]) ELSE held[k]]

InitSnapshot ==
  /\ fs \in [Locations -> Contents \cup {Absent}]
  /\ fs[TxtLoc] = Absent
  /\ project = ListableProject(0)
  /\ issues = <<>>
  /\ function_metrics = <<>>
  /\ class_metrics = <<>>
  /\ ret = NoCall
  /\ seen = [held |-> <<>>, heap |-> <<>>, taken |-> <<>>]
  /\ invocations = NoInvocations
  /\ context_analyzer = NewContextAwareEngine

\* analyzer.analyze_file(file_path) leaves the engine and returns out; the
\* caller keeps the dictionary
KeepResult(file_path, out) ==
  /\ SetEngine(out.eng)
  /\ ret' = [op |-> "analyze_file", file_path |-> file_path, result |-> out.result]
  /\ seen' = [held |-> Append(seen.held, Hold(out.result, Len(seen.held) + 1)),
              heap |-> Append(seen.heap, Built(out.result)),
              taken |-> Append(seen.taken, out.result)]
  /\ UNCHANGED <<fs, project, invocations, context_analyzer>>

CallAnalyzeFileKeeping(file_path) ==
  /\ Len(seen.held) < MaxHeld
  /\ KeepResult(file_path, AnalyzeFile(Engine, fs, file_path))

NextSnapshot == \E p \in EnginePaths : CallAnalyzeFileKeeping(p)

SpecSnapshot == InitSnapshot /\ [][NextSnapshot]_vars

(***************************************************************************)
(* Two analyze_file invocations on the one shared engine whose steps may   *)
(* interleave: the existence check with the read and the parse (lines      *)
(* 75-82), the reset (85-88), each of the four passes (91-94), the         *)
(* dictionary up to the score (96-106) and the score (107).  Each          *)
(* invocation is one call.                                                 *)
(***************************************************************************)
Invocations == {1, 2}
Other(i) == 3 - i

Idle == [pc |-> "idle", file_path |-> RelPath(PyName), content |-> Absent,
         result |-> NoResult, alone |-> TRUE]

\* between its call and its return
Active(inv) == inv.pc \notin {"idle", "done"}

\* the files the two invocations find
ConcCwdContents == Contents \cup {Absent}
ConcProjContents == {"Getter", "Evals"}

InitConc ==
  /\ fs \in [Locations -> Contents \cup {Absent}]
  /\ fs[<<"cwd", PyName>>] \in ConcCwdContents
  /\ fs[<<"proj", PyName>>] \in ConcProjContents
  /\ fs[TxtLoc] = Absent
  /\ project = ListableProject(0)
  /\ issues = <<>>
  /\ function_metrics = <<>>
  /\ class_metrics = <<>>
  /\ ret = NoCall
  /\ seen = NoHistory
  /\ invocations = [i \in Invocations |-> Idle]
  /\ context_analyzer = NewContextAwareEngine

\* invocation i moves on to the record inv; `alone` of an invocation stays
\* TRUE as long as no step is taken while both invocations are active
Advance(i, inv) ==
  /\ invocations' =
       [j \in Invocations |->
          IF j = i
          THEN [inv EXCEPT !.alone = inv.alone /\ ~Active(invocations[Other(i)])]
          ELSE [invocations[j] EXCEPT
                  !.alone = invocations[j].alone /\ ~Active(invocations[j])]]
  /\ UNCHANGED <<fs, project, ret, seen, context_analyzer>>

KeepEngine == UNCHANGED <<issues, function_metrics, class_metrics>>

\* the invocation has returned result
Returns(inv, result) == [inv EXCEPT !.pc = "done", !.result = result]

\* analyze_file(file_path) is called
Begin(i, file_path) ==
  /\ invocations[i].pc = "idle"
  /\ KeepEngine
  /\ Advance(i, [invocations[i] EXCEPT !.pc = "read", !.file_path = file_path])

\* lines 75-82 and the handlers 110-119 for them
ReadAndParse(i) ==
  /\ invocations[i].pc = "read"
  /\ KeepEngine
  /\ Advance(i,
       IF ~OsPathExists(fs, invocations[i].file_path)
       THEN Returns(invocations[i], NotFoundResult(invocations[i].file_path))
       ELSE IF fs[Loc(invocations[i].file_path)] \in Unreadable
       THEN Returns(invocations[i],
                    FailureResult(ReadErrorOf(fs[Loc(invocations[i].file_path)]),
                                  invocations[i].file_path))
       ELSE IF fs[Loc(invocations[i].file_path)] \in Unparsable
       THEN Returns(invocations[i],
                    SyntaxErrorResult(SyntaxErrorOf(fs[Loc(invocations[i].file_path)]),
                                      invocations[i].file_path))
       ELSE [invocations[i] EXCEPT !.pc = "reset",
                                   !.content = fs[Loc(invocations[i].file_path)]])

\* lines 85-88
ResetAccumulators(i) ==
  /\ invocations[i].pc = "reset"
  /\ SetEngine(ClearAccumulators(Engine))
  /\ Advance(i, [invocations[i] EXCEPT !.pc = "business"])

\* line 91, and the handler 115-119 when the visitor raises
PassBusinessLogic(i) ==
  /\ invocations[i].pc = "business"
  /\ SetEngine(AnalyzeBusinessLogic(Engine, invocations[i].content,
                                    invocations[i].file_path))
  /\ Advance(i,
       IF Raises[invocations[i].content]
       THEN Returns(invocations[i],
                    FailureResult("RecursionError", invocations[i].file_path))
       ELSE [invocations[i] EXCEPT !.pc = "performance"])

\* line 92
PassPerformance(i) ==
  /\ invocations[i].pc = "performance"
  /\ SetEngine(AnalyzePerformancePatterns(Engine, invocations[i].content,
                                          invocations[i].file_path))
  /\ Advance(i, [invocations[i] EXCEPT !.pc = "security"])

\* line 93
PassSecurity(i) ==
  /\ invocations[i].pc = "security"
  /\ SetEngine(AnalyzeSecurityRisks(Engine, invocations[i].content,
                                    invocations[i].file_path))
  /\ Advance(i, [invocations[i] EXCEPT !.pc = "architecture"])

\* line 94
PassArchitecture(i) ==
  /\ invocations[i].pc = "architecture"
  /\ SetEngine(AnalyzeArchitectureDecisions(Engine, invocations[i].content,
                                            invocations[i].file_path))
  /\ Advance(i, [invocations[i] EXCEPT !.pc = "assemble"])

\* lines 96-106
Assemble(i) ==
  /\ invocations[i].pc = "assemble"
  /\ KeepEngine
  /\ Advance(i, [invocations[i] EXCEPT
                   !.pc = "score",
                   !.result = ResultBody(Engine, invocations[i].file_path)])

\* lines 107-108
Score(i) ==
  /\ invocations[i].pc = "score"
  /\ KeepEngine
  /\ Advance(i, Returns(invocations[i],
                        WithScore(invocations[i].result,
                                  CalculateQualityScore(issues))))

NextConc ==
  \E i \in Invocations :
    \/ \E p \in EnginePaths : Begin(i, p)
    \/ ReadAndParse(i)
    \/ ResetAccumulators(i)
    \/ PassBusinessLogic(i)
    \/ PassPerformance(i)
    \/ PassSecurity(i)
    \/ PassArchitecture(i)
    \/ Assemble(i)
    \/ Score(i)

SpecConc == InitConc /\ [][NextConc]_vars

(***************************************************************************)
(* Properties.                                                             *)
(***************************************************************************)
\* the last call was an analyze_file that returned a full AnalysisResult
Succeeded == ret.op = "analyze_file" /\ ~IsError(ret.result)

\* the last call was an analyze_file that returned an error dictionary
Failed == ret.op = "analyze_file" /\ IsError(ret.result)

\* the source at the path of the last analyze_file call
ContentOf(file_path) == fs[Loc(file_path)]

\* what the four visitors append for a source, starting from nothing
OwnFindings(content, file_path) ==
  Extend(Extend(Extend(BusinessLogicOf[content][file_path],
                       PerformanceOf[content][file_path]),
                SecurityOf[content][file_path]),
         ArchitectureOf[content][file_path])

\* C1: whatever calls came before, a successful analyze_file result holds
\* exactly the findings the four passes produce from the file of that call:
\* every issue names the call's own file_path and no issue or metric that an
\* earlier call accumulated is in it.
C1_NoStaleFindings ==
  Succeeded =>
    /\ \A k \in 1..Len(ret.result.issues) :
         ret.result.issues[k].file_path = ret.file_path
    /\ ret.result.issues = OwnFindings(ContentOf(ret.file_path), ret.file_path).issues
    /\ ret.result.function_metrics
         = OwnFindings(ContentOf(ret.file_path), ret.file_path).function_metrics
    /\ ret.result.class_metrics
         = OwnFindings(ContentOf(ret.file_path), ret.file_path).class_metrics

\* a successful result returned after an earlier successful call on a
\* different file that had left issues in the accumulators
C1_Witness ==
  /\ Succeeded
  /\ ret.between
  /\ \E q \in EnginePaths :
       /\ q # ret.file_path
       /\ seen[q] # NoResult
       /\ ~IsError(seen[q])
       /\ seen[q].issues # <<>>
       /\ ContentOf(q) # ContentOf(ret.file_path)

\* C2 as claimed: after an analyze_file call that returned an error the
\* engine holds nothing left over from an earlier call: its accumulators are
\* empty, or hold what this call's own business-logic pass appended before it
\* failed.
C2_ResetWhateverOutcome ==
  Failed =>
    \/ Engine = EmptyEngine
    \/ /\ ContentOf(ret.file_path) \in AstContents
       /\ Engine = BusinessLogicOf[ContentOf(ret.file_path)][ret.file_path]

\* the call reads and parses its file, so it reaches the reset
ReachesReset(fsv, file_path) == fsv[Loc(file_path)] \in AstContents

\* C2 as amended: an analyze_file call that reads and parses its file
\* empties the accumulators before its first pass, so that afterwards they
\* hold only what this call appended; a call that returns not-found, a
\* syntax error or a read failure leaves the accumulators as they were.
C2_ResetOnlyAfterParse ==
  [][(ret'.op = "analyze_file" /\ fs' = fs) =>
       IF ReachesReset(fs, ret'.file_path)
       THEN Engine' = (IF Raises[ContentOf(ret'.file_path)]
                       THEN BusinessLogicOf[ContentOf(ret'.file_path)][ret'.file_path]
                       ELSE OwnFindings(ContentOf(ret'.file_path), ret'.file_path))
       ELSE Engine' = Engine]_vars

\* a not-found call has returned and the accumulators still hold the
\* findings of the file analysed before it
C2_Witness ==
  /\ Failed
  /\ ret.result.error[1] = "not_found"
  /\ issues # <<>>
  /\ issues[1].file_path # ret.file_path

\* C4: an analyze_file call on a path whose file has not changed since it
\* was last analysed returns the same value as that earlier call, whatever
\* analyze_file calls were made in between.
C4_SameFileSameResult ==
  (ret.op = "analyze_file" /\ ret.before # NoResult) => ret.result = ret.before

\* a file with issues analysed a second time, unchanged, right after a call
\* on another path
C4_Witness ==
  /\ Succeeded
  /\ ret.before # NoResult
  /\ ret.between
  /\ ret.result.issues # <<>>

\* C5: the assembled result's overall_quality_score lies in [0, 100], and
\* is exactly 100.0 when the issue list is empty.
C5_ScoreInRange ==
  ret.op = "assemble" =>
    /\ ret.result.overall_quality_score \in 0..1000
    /\ issues = <<>> => ret.result.overall_quality_score = 1000

\* a result whose penalties add up to more than 100 and that scores 0
C5_Witness ==
  /\ ret.op = "assemble"
  /\ TotalPenalty(issues) > 10000
  /\ ret.result.overall_quality_score = 0

\* the penalty of an issue by the rule that raised it, in tenths of a point
RulePenalty(message) ==
  CASE message \in {"naming_get", "naming_set", "naming_bool", "naming_save"} -> 70
    [] message \in {"complexity", "bare_except", "string_concat"} -> 90
    [] message = "param_count" -> 40
    [] message \in {"nested_loop", "large_class"} -> 80
    [] message = "hardcoded_secret" -> 160
    [] message \in {"eval", "exec"} -> 190

RECURSIVE SumRulePenalty(_)
SumRulePenalty(list) ==
  IF list = <<>> THEN 0 ELSE RulePenalty(Head(list).message) + SumRulePenalty(Tail(list))

C7_FullScoreOnlyWithoutIssues ==
  (Succeeded /\ ret.result.overall_quality_score = 1000) => ret.result.issues = <<>>

\* a successful result with a single issue, scored below 100
C7_Witness ==
  /\ Succeeded
  /\ Len(ret.result.issues) = 1
  /\ ret.result.overall_quality_score < 1000

\* an invocation has returned a full AnalysisResult
ReturnedResult(inv) == inv.pc = "done" /\ ~IsError(inv.result)

\* what analyze_file returns for the invocation's file when nothing else
\* touches the engine
OwnResult(inv) ==
  AnalysisResult(OwnFindings(inv.content, inv.file_path), inv.file_path)

\* the returned result holds an issue of a file other than its own
HasForeignFinding(inv) ==
  \E k \in 1..Len(inv.result.issues) :
    inv.result.issues[k].file_path # inv.file_path

\* the returned result lacks an issue or a metric of its own file
LacksOwnFinding(inv) ==
  \E a \in Accumulators :
    \E k \in 1..Len(OwnFindings(inv.content, inv.file_path)[a]) :
      \A m \in 1..Len(inv.result[a]) :
        inv.result[a][m] # OwnFindings(inv.content, inv.file_path)[a][k]

\* the returned score or summary is not that of its own file's issues
MismatchedScore(inv) ==
  \/ inv.result.overall_quality_score # OwnResult(inv).overall_quality_score
  \/ inv.result.analysis_summary # OwnResult(inv).analysis_summary

\* C3: when the steps of two analyze_file invocations on the shared engine
\* interleave, a returned result can hold findings of the other
\* invocation's file, lack findings of its own file, or carry a score or
\* summary that is not that of its own file (C3_Witness is such a state);
\* the interleaving is what it takes: an invocation none of whose steps was
\* taken while the other was between its call and its return gives exactly
\* the result of its own file.
C3_ExactUnlessInterleaved ==
  \A i \in Invocations :
    (invocations # NoInvocations /\ ReturnedResult(invocations[i])
       /\ invocations[i].alone)
      => invocations[i].result = OwnResult(invocations[i])

\* both invocations have returned: one result holds an issue of the other
\* one's file, the other result lacks a finding of its own file and its
\* score is not that of its own issues
C3_Witness ==
  /\ invocations # NoInvocations
  /\ \E i \in Invocations :
       /\ ReturnedResult(invocations[i])
       /\ ReturnedResult(invocations[Other(i)])
       /\ HasForeignFinding(invocations[i])
       /\ LacksOwnFinding(invocations[Other(i)])
       /\ MismatchedScore(invocations[Other(i)])

\* C8: analyze_file called with a path at which there is no file, and
\* analyze_code_intelligence called with a path that it finds neither as
\* given nor, for a relative path, under the project directory, return the
\* error dictionary whose message holds the path exactly as it was passed;
\* neither raises.
C8_NotFoundNamesQueriedPath ==
  /\ (ret.op = "analyze_file" /\ ~OsPathExists(fs, ret.file_path))
       => ret.result = [error |-> <<"not_found", ret.file_path>>]
  /\ (ret.op = "analyze_code_intelligence"
        /\ ~OsPathExists(fs, ret.file_path)
        /\ (IsAbs(ret.file_path) \/ ~OsPathExists(fs, JoinProject(ret.file_path))))
       => ret.result = [error |-> <<"not_found", ret.file_path>>]
  /\ ret.op \in {"analyze_file", "analyze_code_intelligence"}
       => "raised" \notin DOMAIN ret.result

\* analyze_code_intelligence has returned the not-found error for a
\* relative path, naming the path as passed and not the joined path it
\* looked up first
C8_Witness ==
  /\ ret.op = "analyze_code_intelligence"
  /\ ~IsAbs(ret.file_path)
  /\ IsError(ret.result)
  /\ ret.result.error = <<"not_found", ret.file_path>>
  /\ ret.result.error[2] # JoinProject(ret.file_path)

\* the tools whose value is a dictionary or a report
RecordTools ==
  {"analyze_code_intelligence", "analyze_python", "get_comprehensive_analysis",
   "get_quality_report"}

\* C9: no tool lets an exception reach its caller, and analyze_python
\* called for a file it does not find returns a dictionary with an error
\* entry, whether or not the project directory can be listed.
C9_EveryFailureIsReturned ==
  /\ ret.op \in RecordTools => "raised" \notin DOMAIN ret.result
  /\ (ret.op = "analyze_python"
        /\ ~OsPathExists(fs, ret.file_path)
        /\ ~OsPathExists(fs, JoinProject(ret.file_path)))
       => "error" \in DOMAIN ret.result

\* the returned value names the file it is about
ReportsPath == ret.op \in RecordTools /\ "file_path" \in DOMAIN ret.result

\* C10 as claimed: a tool called with a relative path at which there is a
\* file works on that file, whether or not there is a file of that name
\* under the project directory.
C10_AsGivenFirst ==
  (ret.op # "none" /\ ~IsAbs(ret.file_path) /\ OsPathExists(fs, ret.file_path)) =>
    /\ ReportsPath => ret.result.file_path = ret.file_path
    /\ ret.op = "suggest_refactoring"
         => ret.result = SuggestRefactoringAt(fs, ret.file_path)

\* C10 as amended: a tool called with a relative path works on the file of
\* that name under the project directory whenever there is one, also when
\* there is a file at the path as given, and on the path as given only when
\* there is none under the project directory.
C10_ProjectRootFirst ==
  (ret.op # "none" /\ ret.op # "analyze_file" /\ ~IsAbs(ret.file_path)) =>
    /\ ReportsPath =>
         ret.result.file_path =
           (IF OsPathExists(fs, JoinProject(ret.file_path))
            THEN JoinProject(ret.file_path) ELSE ret.file_path)
    /\ ret.op = "suggest_refactoring" =>
         ret.result =
           SuggestRefactoringAt(fs, IF OsPathExists(fs, JoinProject(ret.file_path))
                                    THEN JoinProject(ret.file_path)
                                    ELSE ret.file_path)

\* analyze_code_intelligence called with a relative path that exists both
\* as given and under the project directory, with different sources, has
\* returned the analysis of the one under the project directory
C10_Witness ==
  /\ ret.op = "analyze_code_intelligence"
  /\ ~IsAbs(ret.file_path)
  /\ OsPathExists(fs, ret.file_path)
  /\ OsPathExists(fs, JoinProject(ret.file_path))
  /\ fs[Loc(ret.file_path)] # fs[Loc(JoinProject(ret.file_path))]
  /\ ~IsError(ret.result)
  /\ ret.result.file_path = JoinProject(ret.file_path)
  /\ ret.result.issues = OwnFindings(fs[Loc(JoinProject(ret.file_path))],
                                     JoinProject(ret.file_path)).issues
  /\ ret.result.issues # <<>>

\* C11: analyze_python called with a path at which it finds no file, as
\* given or under the project directory, returns the error dictionary that
\* holds the path it tried, the working directory and at most 10 of the .py
\* file names of the project directory.
C11_NotFoundDiagnostics ==
  (ret.op = "analyze_python"
     /\ ~OsPathExists(fs, ret.file_path)
     /\ ~OsPathExists(fs, JoinProject(ret.file_path)))
    => /\ DOMAIN ret.result
            = {"error", "current_directory", "suggestion", "available_files"}
       /\ ret.result.error = <<"not_found", ret.file_path>>
       /\ ret.result.current_directory = "cwd"
       /\ Len(ret.result.available_files) <= 10
       /\ \A k \in 1..Len(ret.result.available_files) :
            ret.result.available_files[k] \in 0..project.others

\* the keys of a full AnalysisResult
ResultKeys ==
  {"file_path", "analysis_summary", "issues", "function_metrics", "class_metrics",
   "overall_quality_score"}

\* C12: analyze_file on an existing file returns one of three values, by
\* what happens to the file: when the source does not parse, the error
\* dictionary with the syntax message, its line number and the file_path;
\* when reading or analysing raises anything else, the error dictionary
\* with that exception's message and the file_path; otherwise the full
\* AnalysisResult.  An error dictionary holds nothing but error and
\* file_path: no issues, no metrics, no summary, no score.
C12_ThreeOutcomes ==
  (ret.op = "analyze_file" /\ OsPathExists(fs, ret.file_path)) =>
    /\ ContentOf(ret.file_path) \in Unparsable =>
         ret.result = [error |-> <<"syntax_error",
                                   SyntaxErrorOf(ContentOf(ret.file_path)).msg,
                                   SyntaxErrorOf(ContentOf(ret.file_path)).lineno>>,
                       file_path |-> ret.file_path]
    /\ ContentOf(ret.file_path) \in Unreadable =>
         ret.result = [error |-> <<"analysis_failed",
                                   ReadErrorOf(ContentOf(ret.file_path))>>,
                       file_path |-> ret.file_path]
    /\ (ContentOf(ret.file_path) \in AstContents /\ Raises[ContentOf(ret.file_path)]) =>
         ret.result = [error |-> <<"analysis_failed", "RecursionError">>,
                       file_path |-> ret.file_path]
    /\ (ContentOf(ret.file_path) \in AstContents /\ ~Raises[ContentOf(ret.file_path)]) =>
         /\ DOMAIN ret.result = ResultKeys
         /\ ret.result.file_path = ret.file_path
    /\ IsError(ret.result) => DOMAIN ret.result = {"error", "file_path"}

\* a syntax-error result returned while the engine still holds the issues
\* of the file analysed before: none of them is in the result
C12_Witness ==
  /\ Failed
  /\ OsPathExists(fs, ret.file_path)
  /\ ret.result.error[1] = "syntax_error"
  /\ ret.result.error[3] = 1
  /\ issues # <<>>
  /\ DOMAIN ret.result = {"error", "file_path"}

\* the path a tool works on when called with file_path: the one under the
\* project directory when a relative file_path is found there
Attempted(file_path) ==
  IF ~IsAbs(file_path) /\ OsPathExists(fs, JoinProject(file_path))
  THEN JoinProject(file_path)
  ELSE file_path

\* C13: analyze_python on an existing .py file whose source does not parse
\* returns the counts taken before parsing (file_path, total_lines,
\* code_lines, comment_lines) and a syntax_error entry with the line number
\* and message of the SyntaxError, and nothing else: no error entry, no
\* functions or classes.
C13_SyntaxErrorIsPartialResult ==
  (ret.op = "analyze_python"
     /\ OsPathExists(fs, Attempted(ret.file_path))
     /\ EndsWithPy(Attempted(ret.file_path))
     /\ ContentOf(Attempted(ret.file_path)) \in Unparsable)
    => /\ DOMAIN ret.result
            = {"file_path", "total_lines", "code_lines", "comment_lines",
               "syntax_error"}
       /\ ret.result.file_path = Attempted(ret.file_path)
       /\ ret.result.total_lines = 3
       /\ ret.result.code_lines = 2
       /\ ret.result.comment_lines = 0
       /\ ret.result.syntax_error = [msg |-> "invalid syntax", lineno |-> 1]

\* analyze_python has returned the counts and the syntax error of the
\* unparsable file under the project directory, called with a relative path
C13_Witness ==
  /\ ret.op = "analyze_python"
  /\ ~IsAbs(ret.file_path)
  /\ "syntax_error" \in DOMAIN ret.result
  /\ "error" \notin DOMAIN ret.result
  /\ ret.result.syntax_error.lineno = 1
  /\ ret.result.total_lines = 3
  /\ ret.result.file_path = JoinProject(ret.file_path)

\* the issues of a result that report a bare except at a line
BareExceptIssuesAt(result, line) ==
  {k \in 1..Len(result.issues) :
     /\ result.issues[k].message = "bare_except"
     /\ result.issues[k].severity = "warning"
     /\ result.issues[k].category = "logic"
     /\ result.issues[k].line_number = line}

\* the exception handlers without an exception type in a parsed source
BareHandlers(tree) ==
  {i \in 1..Len(tree) : tree[i].kind = "ExceptHandler" /\ tree[i].bare}

\* C14: a successful result holds exactly one warning/logic bare-except
\* issue for each exception handler without an exception type in the file,
\* at the handler's line, wherever the handler is: at module level, in a
\* function or in a function nested in another.
C14_OneIssuePerBareHandler ==
  Succeeded =>
    \A i \in BareHandlers(Tree(ContentOf(ret.file_path))) :
      Cardinality(BareExceptIssuesAt(ret.result,
                                     Tree(ContentOf(ret.file_path))[i].line)) = 1

\* the calls of a parsed source whose callee is the bare name `name`, at a
\* line
BareNameCallsAt(tree, name, line) ==
  {i \in 1..Len(tree) :
     /\ tree[i].kind = "Call"
     /\ tree[i].callee = "id"
     /\ tree[i].name = name
     /\ tree[i].line = line}

\* the issues of a result raised by rule `name` at a line
RuleIssuesAt(result, name, line) ==
  {k \in 1..Len(result.issues) :
     result.issues[k].message = name /\ result.issues[k].line_number = line}

\* the lines of a parsed source
LinesOf(tree) == {tree[i].line : i \in 1..Len(tree)}

\* C15: a successful result holds, for every call whose callee is the bare
\* name eval or exec, exactly one issue of that rule at the line of the
\* call, wherever the call is (module level, function, method, loop,
\* assigned value, argument of another call), each of them
\* critical/security with confidence 0.95; no other call (another name, or
\* a method called eval) adds one.
C15_OneIssuePerEvalExecCall ==
  Succeeded =>
    /\ \A name \in {"eval", "exec"} :
         \A line \in LinesOf(Tree(ContentOf(ret.file_path))) :
           Cardinality(RuleIssuesAt(ret.result, name, line))
             = Cardinality(BareNameCallsAt(Tree(ContentOf(ret.file_path)), name, line))
    /\ \A k \in 1..Len(ret.result.issues) :
         ret.result.issues[k].message \in {"eval", "exec"} =>
           /\ ret.result.issues[k].severity = "critical"
           /\ ret.result.issues[k].category = "security"
           /\ ret.result.issues[k].confidence = 95
           /\ ret.result.issues[k].line_number
                \in LinesOf(Tree(ContentOf(ret.file_path)))

\* the result for the file with eval as an assigned value (line 1), exec
\* at module level (2), eval in the argument of eval in the argument of
\* print (3), eval in exec in a function (6), eval in a loop of a method
\* (11) and a method named eval called on an object (12)
C15_Witness ==
  /\ Succeeded
  /\ ContentOf(ret.file_path) = "Evals"
  /\ Cardinality(RuleIssuesAt(ret.result, "eval", 1)) = 1
  /\ Cardinality(RuleIssuesAt(ret.result, "exec", 2)) = 1
  /\ Cardinality(RuleIssuesAt(ret.result, "eval", 3)) = 2
  /\ Cardinality(RuleIssuesAt(ret.result, "exec", 6)) = 1
  /\ Cardinality(RuleIssuesAt(ret.result, "eval", 6)) = 1
  /\ Cardinality(RuleIssuesAt(ret.result, "eval", 11)) = 1
  /\ Cardinality(RuleIssuesAt(ret.result, "eval", 12)) = 0
  /\ Cardinality({k \in 1..Len(ret.result.issues) :
                    ret.result.issues[k].category = "security"}) = 7

\* the function definitions of a parsed source whose name starts with get_
GetFunctions(tree) ==
  {i \in 1..Len(tree) :
     /\ tree[i].kind \in {"FunctionDef", "AsyncFunctionDef"}
     /\ StartsWith(tree[i].nchars, <<"g", "e", "t", "_">>)}

\* the function contains a return statement
HasReturn(tree, i) ==
  \E j \in 1..Len(tree) : tree[j].kind = "Return" /\ InSubtree(tree, i, j)

\* the naming warnings about a get_ function without return, at a line
GetWarningsAt(result, line) ==
  {k \in 1..Len(result.issues) :
     /\ result.issues[k].message = "naming_get"
     /\ result.issues[k].severity = "warning"
     /\ result.issues[k].category = "logic"
     /\ result.issues[k].confidence = 70
     /\ result.issues[k].line_number = line}

\* C16: in a successful result a function whose name starts with get_ has
\* one naming-consistency warning (warning/logic, confidence 0.7) at its
\* line when it contains no return statement, and none when it contains
\* one.
C16_GetWithoutReturnIsFlagged ==
  Succeeded =>
    \A i \in GetFunctions(Tree(ContentOf(ret.file_path))) :
      Cardinality(GetWarningsAt(ret.result, Tree(ContentOf(ret.file_path))[i].line))
        = (IF HasReturn(Tree(ContentOf(ret.file_path)), i) THEN 0 ELSE 1)

\* the suggestions of a kind that a list of suggestions holds for a name
SuggestionsFor(suggestions, type, name) ==
  {k \in 1..Len(suggestions) :
     suggestions[k].type = type /\ suggestions[k].message = name}

\* the number of source lines a definition spans, first and last included
SpannedLines(tree, i) == tree[i].endline - tree[i].line + 1

\* C17: suggest_refactoring on a parsable file gives one function_length
\* suggestion for every function that spans more than 50 source lines,
\* first and last line included, and none for a function that spans 50
\* lines or fewer; a function with no parameter gets no parameter_count
\* suggestion.
C17_LongerThanFiftyLines ==
  (ret.op = "suggest_refactoring"
     /\ OsPathExists(fs, Attempted(ret.file_path))
     /\ ContentOf(Attempted(ret.file_path)) \in AstContents)
    => \A i \in 1..Len(Tree(ContentOf(Attempted(ret.file_path)))) :
         Tree(ContentOf(Attempted(ret.file_path)))[i].kind = "FunctionDef" =>
           /\ Cardinality(SuggestionsFor(ret.result, "function_length",
                            Tree(ContentOf(Attempted(ret.file_path)))[i].name))
                = (IF SpannedLines(Tree(ContentOf(Attempted(ret.file_path))), i) > 50
                   THEN 1 ELSE 0)
           /\ Tree(ContentOf(Attempted(ret.file_path)))[i].params = 0 =>
                SuggestionsFor(ret.result, "parameter_count",
                               Tree(ContentOf(Attempted(ret.file_path)))[i].name) = {}

\* the keyword class of each description: the first of test, docs (doc,
\* readme), fix (fix, bug), feat (add, new) with a keyword in the
\* lower-cased description, else refactor
ExpectedClass(change) ==
  CASE change = DescLogin -> "feat"
    [] change = DescCrash -> "fix"
    [] change = DescFixDocs -> "docs"
    [] change = DescReadme -> "docs"
    [] change = DescTests -> "test"
    [] change = DescCleanup -> "refactor"
    [] change = DescLatest -> "test"
    [] change = DescBugfix -> "fix"
    [] change = DescEmpty -> "refactor"

\* the template classes, highest priority first
TemplatePriority == <<"feat", "fix", "test", "docs", "refactor">>

\* some description of the list is of class TemplatePriority[r]
ClassPresent(file_changes, r) ==
  \E k \in 1..Len(file_changes) : ExpectedClass(file_changes[k]) = TemplatePriority[r]

\* C18: for a list of descriptions that is not empty the commit message is
\* the template of the first class of feat, fix, test, docs, refactor that
\* one of the descriptions belongs to, each description being classified by
\* the first of test, docs, fix, feat whose keyword it holds, else
\* refactor; the message quotes the number of descriptions; the one
\* description 'added new login feature' gives the feat template with
\* '(1 files)'.
C18_TemplateByPriority ==
  (ret.op \in {"DevAcceleratorEngine.generate_commit_message", "generate_commit_message"}
     /\ ret.file_changes # <<>>)
    => /\ \E r \in 1..Len(TemplatePriority) :
            /\ ret.result.type = TemplatePriority[r]
            /\ ClassPresent(ret.file_changes, r)
            /\ \A q \in 1..(r - 1) : ~ClassPresent(ret.file_changes, q)
       /\ ret.result.files = Len(ret.file_changes)
       /\ ret.file_changes = <<DescLogin>> => ret.result = [type |-> "feat", files |-> 1]

\* 'latest docs' (test, by the 'test' in latest) and 'fix docs' (docs)
\* give the test template for 2 files
C18_Witness ==
  /\ ret.op = "DevAcceleratorEngine.generate_commit_message"
  /\ ret.file_changes = <<DescLatest, DescFixDocs>>
  /\ ret.result = [type |-> "test", files |-> 2]

\* C19: no call changes the fields project_root, tech_debt_score and
\* dependency_issues of the ContextAwareEngine, and a call of
\* analyze_project_context or of a DevAcceleratorEngine operation returns
\* what the same call returned the last time, whatever was called in
\* between, as long as the project directory has not changed.
C19_NoCrossCallState ==
  [][/\ context_analyzer' = context_analyzer
     /\ (ret'.op \in ContextOps /\ ret'.before.known)
          => ret'.result = ret'.before.result]_vars

\* analyze_project_context is called again after a call of another
\* operation, on the project whose debt is 36, and returns the same
\* dictionary while the engine's tech_debt_score is still 0
C19_Witness ==
  /\ ret.op = "analyze_project_context"
  /\ ret.before.known
  /\ ret.between
  /\ seen["generate_function_docstring"] # NoCall
  /\ project = ProjDebt
  /\ ret.result = ret.before.result
  /\ ret.result.tech_debt_assessment.total_score = 36
  /\ context_analyzer = NewContextAwareEngine

\* the pass that raises a rule: 1 business logic, 2 performance,
\* 3 security, 4 architecture
PassOfRule(message) ==
  CASE message \in {"naming_get", "naming_set", "naming_bool", "naming_save",
                    "complexity", "param_count", "bare_except"} -> 1
    [] message \in {"nested_loop", "string_concat"} -> 2
    [] message \in {"hardcoded_secret", "eval", "exec"} -> 3
    [] message = "large_class" -> 4

\* C20: in a successful result the issues stand in the order of the
\* passes: those of the business-logic pass, then those of the
\* performance pass, then those of the security pass, then those of the
\* architecture pass, whatever their order in the source; the summary and
\* the score count the issues of all four passes.
C20_IssuesInPassOrder ==
  Succeeded =>
    /\ \A k \in 1..Len(ret.result.issues) :
         \A m \in (k + 1)..Len(ret.result.issues) :
           PassOfRule(ret.result.issues[k].message)
             <= PassOfRule(ret.result.issues[m].message)
    /\ ret.result.analysis_summary.total_issues = Len(ret.result.issues)
    /\ ret.result.overall_quality_score
         = Max(0, 1000 - SumRulePenalty(ret.result.issues))

\* a result with an issue of each of three passes and the architecture
\* issue last, although the class stands in the source before the loop and
\* the eval call; the score counts all four
C20_Witness ==
  /\ Succeeded
  /\ Len(ret.result.issues) = 4
  /\ ret.result.issues[1].message = "complexity"
  /\ ret.result.issues[2].message = "nested_loop"
  /\ ret.result.issues[3].message = "eval"
  /\ ret.result.issues[4].message = "large_class"
  /\ ret.result.issues[4].line_number < ret.result.issues[2].line_number
  /\ ret.result.analysis_summary.total_issues = 4
  /\ ret.result.overall_quality_score = 1000 - (90 + 80 + 190 + 80)

\* the function definitions of a tree, synchronous and async, in the order
\* a visitor meets them
FunctionDefs(tree) ==
  SelectSeq([k \in 1..Len(tree) |-> k],
            LAMBDA j : tree[j].kind \in {"FunctionDef", "AsyncFunctionDef"})

\* name and line of each entry of a list of FunctionMetrics
NamesAndLines(metrics) ==
  [k \in 1..Len(metrics) |-> <<metrics[k].name, metrics[k].line_start>>]

\* C21: in a successful result function_metrics holds exactly one entry for
\* every function definition of the file, top-level, method or nested,
\* synchronous or async, in traversal order.
C21_OneMetricPerFunction ==
  Succeeded =>
    NamesAndLines(ret.result.function_metrics)
      = [k \in 1..Len(FunctionDefs(Tree(ContentOf(ret.file_path)))) |->
           <<Tree(ContentOf(ret.file_path))[FunctionDefs(Tree(ContentOf(ret.file_path)))[k]].name,
             Tree(ContentOf(ret.file_path))[FunctionDefs(Tree(ContentOf(ret.file_path)))[k]].line>>]

\* the definition a FunctionMetrics entry was recorded for
MetricNode(tree, metric) ==
  CHOOSE i \in 1..Len(tree) :
    /\ tree[i].kind = "FunctionDef"
    /\ tree[i].name = metric.name
    /\ tree[i].line = metric.line_start

\* the nodes of the given classes in the definition at node i
NodesIn(tree, i, kinds) ==
  {j \in 1..Len(tree) : InSubtree(tree, i, j) /\ tree[j].kind \in kinds}

\* the exception-handler clauses of the try constructs in the definition
HandlersIn(tree, i) ==
  {j \in NodesIn(tree, i, {"ExceptHandler"}) : tree[tree[j].parent].kind = "Try"}

BranchKinds == {"If", "While", "For", "AsyncFor", "With", "AsyncWith"}

\* C22: the complexity recorded for a function is 1 plus its if, while,
\* for, async for, with and async with nodes, plus the handler clauses of
\* its try constructs, plus its boolean and/or nodes; it is at least 1,
\* and exactly 1 for a function without any of these.
C22_ComplexityCounts ==
  Succeeded =>
    \A k \in 1..Len(ret.result.function_metrics) :
      /\ ret.result.function_metrics[k].complexity
           = 1 + Cardinality(NodesIn(Tree(ContentOf(ret.file_path)),
                                     MetricNode(Tree(ContentOf(ret.file_path)),
                                                ret.result.function_metrics[k]),
                                     BranchKinds))
               + Cardinality(HandlersIn(Tree(ContentOf(ret.file_path)),
                                        MetricNode(Tree(ContentOf(ret.file_path)),
                                                   ret.result.function_metrics[k])))
               + Cardinality(NodesIn(Tree(ContentOf(ret.file_path)),
                                     MetricNode(Tree(ContentOf(ret.file_path)),
                                                ret.result.function_metrics[k]),
                                     {"And", "Or"}))
      /\ ret.result.function_metrics[k].complexity >= 1
      /\ NodesIn(Tree(ContentOf(ret.file_path)),
                 MetricNode(Tree(ContentOf(ret.file_path)), ret.result.function_metrics[k]),
                 BranchKinds \cup {"Try", "And", "Or"}) = {}
           => ret.result.function_metrics[k].complexity = 1

\* add (no branch: 1) and load (a with, an or, and the async for and async
\* with of its nested async function: 5) of the same file
C22_Witness ==
  /\ Succeeded
  /\ Len(ret.result.function_metrics) = 2
  /\ ret.result.function_metrics[1].name = "add"
  /\ ret.result.function_metrics[1].complexity = 1
  /\ ret.result.function_metrics[2].name = "load"
  /\ ret.result.function_metrics[2].complexity = 5
  /\ NodesIn(Tree(ContentOf(ret.file_path)),
             MetricNode(Tree(ContentOf(ret.file_path)), ret.result.function_metrics[2]),
             {"With", "AsyncFor", "AsyncWith", "Or"}) # {}

\* the for and while loops of a parsed source at a line that hold another
\* for or while loop
LoopsWithInnerLoopAt(tree, line) ==
  {i \in 1..Len(tree) :
     /\ tree[i].kind \in {"For", "While"}
     /\ tree[i].line = line
     /\ \E j \in 1..Len(tree) :
          j # i /\ InSubtree(tree, i, j) /\ tree[j].kind \in {"For", "While"}}

\* C23: a successful result holds one nested-loop issue
\* (warning/performance, confidence 0.8) at the line of every loop, for or
\* while, that holds another loop at any depth, and none for a loop that
\* holds no loop.
C23_OneIssuePerNestingLoop ==
  Succeeded =>
    /\ \A line \in LinesOf(Tree(ContentOf(ret.file_path))) :
         Cardinality(RuleIssuesAt(ret.result, "nested_loop", line))
           = Cardinality(LoopsWithInnerLoopAt(Tree(ContentOf(ret.file_path)), line))
    /\ \A k \in 1..Len(ret.result.issues) :
         ret.result.issues[k].message = "nested_loop" =>
           /\ ret.result.issues[k].severity = "warning"
           /\ ret.result.issues[k].category = "performance"
           /\ ret.result.issues[k].confidence = 80

\* the assignments of a parsed source at a line whose value is a string
\* constant of more than 8 characters and whose targets, as written, hold
\* one of password, secret, key, token in any letter case
SecretAssignsAt(tree, line) ==
  {i \in 1..Len(tree) :
     /\ tree[i].kind = "Assign"
     /\ tree[i].line = line
     /\ tree[i].strlen > 8
     /\ \E keyword \in SecretKeywords : Mentions(tree[i].nchars, keyword)}

\* C24: a successful result holds one hardcoded-secret issue
\* (critical/security, confidence 0.8) at the line of every assignment of
\* a string constant longer than 8 characters to a target whose written
\* form holds password, secret, key or token, and none for any other
\* assignment.
C24_OneIssuePerSecretAssign ==
  Succeeded =>
    /\ \A line \in LinesOf(Tree(ContentOf(ret.file_path))) :
         Cardinality(RuleIssuesAt(ret.result, "hardcoded_secret", line))
           = Cardinality(SecretAssignsAt(Tree(ContentOf(ret.file_path)), line))
    /\ \A k \in 1..Len(ret.result.issues) :
         ret.result.issues[k].message = "hardcoded_secret" =>
           /\ ret.result.issues[k].severity = "critical"
           /\ ret.result.issues[k].category = "security"
           /\ ret.result.issues[k].confidence = 80

\* the last call was an analyze_project_context that returned a context
ContextReturned ==
  ret.op = "analyze_project_context" /\ "error" \notin DOMAIN ret.result

\* the members of a list
Members(list) == {list[k] : k \in 1..Len(list)}

\* C25: the recommendations of a project context hold the modularization
\* recommendation whenever its architecture_pattern is 'Simple/Flat
\* Structure', the test-framework recommendation whenever it names no
\* testing framework, and the refactor-plan recommendation whenever its
\* debt_level is High.
C25_RecommendationRules ==
  ContextReturned =>
    /\ ret.result.architecture_pattern = "Simple/Flat Structure"
         => "modularize" \in Members(ret.result.recommendations)
    /\ ret.result.tech_stack.testing_frameworks = <<>>
         => "add_test_framework" \in Members(ret.result.recommendations)
    /\ ret.result.tech_debt_assessment.debt_level = "High"
         => "plan_refactoring" \in Members(ret.result.recommendations)

\* the .py files of a project that can be read and are longer than 2000
\* characters
LongFiles(proj) ==
  {k \in 1..Len(proj.py_files) :
     proj.py_files[k].readable /\ proj.py_files[k].chars > 2000}

\* the lines holding 'def ' of the long files, as pairs of file and line
DefLinesOfLongFiles(proj) ==
  UNION {{<<k, n>> : n \in 1..proj.py_files[k].def_lines} : k \in LongFiles(proj)}

\* the sum of the five factor counts
FactorSum(debt_factors) ==
  debt_factors["code_duplication"] + debt_factors["long_functions"]
  + debt_factors["complex_classes"] + debt_factors["missing_tests"]
  + debt_factors["poor_documentation"]

\* C26 as stated: each scanned file adds at most 1 to long_functions, 1
\* when it has a line holding 'def ' and more than 2000 characters,
\* otherwise 0; total_score is the sum of the five factor counts.
C26_AtMostOnePerFile ==
  ContextReturned =>
    /\ ret.result.tech_debt_assessment.debt_factors["long_functions"]
         = Cardinality({k \in LongFiles(project) : project.py_files[k].def_lines >= 1})
    /\ ret.result.tech_debt_assessment.total_score
         = FactorSum(ret.result.tech_debt_assessment.debt_factors)

\* C26 amended: each scanned file that can be read adds to long_functions
\* the number of its lines holding 'def ' when it has more than 2000
\* characters, otherwise 0; total_score is the sum of the five factor
\* counts.
C26_DefLinesOfLongFiles ==
  ContextReturned =>
    /\ ret.result.tech_debt_assessment.debt_factors["long_functions"]
         = Cardinality(DefLinesOfLongFiles(project))
    /\ ret.result.tech_debt_assessment.total_score
         = FactorSum(ret.result.tech_debt_assessment.debt_factors)

\* four long modules of seven definitions each give 28, and a total of 36
\* with the four missing tests and four undocumented modules
C26_Witness ==
  /\ ContextReturned
  /\ project = ProjDebt
  /\ Cardinality(LongFiles(project)) = 4
  /\ ret.result.tech_debt_assessment.debt_factors["long_functions"] = 28
  /\ ret.result.tech_debt_assessment.debt_factors["missing_tests"] = 4
  /\ ret.result.tech_debt_assessment.debt_factors["poor_documentation"] = 4
  /\ ret.result.tech_debt_assessment.total_score = 36

\* the last call was a get_comprehensive_analysis that returned a report
Reported == ret.op = "get_comprehensive_analysis" /\ ret.result.text = "report"

\* shown holds the first entries of list, all of them or at most n
FrontOf(shown, list, n) ==
  /\ Len(shown) <= n
  /\ Len(shown) <= Len(list)
  /\ Len(shown) = n \/ Len(shown) = Len(list)

\* the critical issues the engine holds, in their order
CriticalIssues == SelectSeq(issues, LAMBDA i : i.severity = "critical")

\* C27: the composite report lists the first functions of the analysis, at
\* most 5, each with the icon of its complexity (<= 5, <= 10, above), the
\* first refactor suggestions, at most 5, and the first critical issues,
\* at most 3, all in their original order, and closes with the one block
\* of the score band (>= 80, >= 60, lower).
C27_ReportFronts ==
  Reported =>
    /\ FrontOf(ret.result.functions, function_metrics, 5)
    /\ \A k \in 1..Len(ret.result.functions) :
         /\ ret.result.functions[k].name = function_metrics[k].name
         /\ ret.result.functions[k].complexity = function_metrics[k].complexity
         /\ ret.result.functions[k].icon
              = (IF function_metrics[k].complexity <= 5 THEN "green"
                 ELSE IF function_metrics[k].complexity <= 10 THEN "yellow"
                 ELSE "red")
    /\ FrontOf(ret.result.refactoring,
               DevSuggestRefactoring(ContentOf(Attempted(ret.file_path))), 5)
    /\ \A k \in 1..Len(ret.result.refactoring) :
         ret.result.refactoring[k]
           = DevSuggestRefactoring(ContentOf(Attempted(ret.file_path)))[k]
    /\ FrontOf(ret.result.critical, CriticalIssues, 3)
    /\ \A k \in 1..Len(ret.result.critical) :
         /\ ret.result.critical[k].line_number = CriticalIssues[k].line_number
         /\ ret.result.critical[k].message = CriticalIssues[k].message
    /\ ret.result.closing
         = (IF ret.result.score >= 800 THEN "good"
            ELSE IF ret.result.score >= 600 THEN "attention"
            ELSE "poor")

\* a report on the file with 8 functions, 6 suggestions and 7 critical
\* issues: 5, 5 and 3 of them are listed, the third function (complexity
\* 7) with the middle icon, and the score 0 selects the last block
C27_Witness ==
  /\ Reported
  /\ Len(function_metrics) = 8
  /\ Len(ret.result.functions) = 5
  /\ ret.result.functions[3].name = "p0"
  /\ ret.result.functions[3].icon = "yellow"
  /\ Len(DevSuggestRefactoring(ContentOf(Attempted(ret.file_path)))) = 6
  /\ Len(ret.result.refactoring) = 5
  /\ Len(CriticalIssues) = 7
  /\ Len(ret.result.critical) = 3
  /\ ret.result.score = 0
  /\ ret.result.closing = "poor"

\* the issues of a result that have the given severity
OfSeverity(result, s) ==
  {k \in 1..Len(result.issues) : result.issues[k].severity = s}

\* C28: in a successful result total_issues is the length of issues,
\* critical_issues, warnings and suggestions are the numbers of issues of
\* each severity, and total_issues is the sum of the three.
C28_SummaryMatchesIssues ==
  Succeeded =>
    /\ ret.result.analysis_summary.total_issues = Len(ret.result.issues)
    /\ ret.result.analysis_summary.critical_issues
         = Cardinality(OfSeverity(ret.result, "critical"))
    /\ ret.result.analysis_summary.warnings
         = Cardinality(OfSeverity(ret.result, "warning"))
    /\ ret.result.analysis_summary.suggestions
         = Cardinality(OfSeverity(ret.result, "suggestion"))
    /\ ret.result.analysis_summary.total_issues
         = ret.result.analysis_summary.critical_issues
           + ret.result.analysis_summary.warnings
           + ret.result.analysis_summary.suggestions

\* a result with 13 issues: the seven critical ones of the eval and exec
\* calls and the six suggestions of the functions with six parameters
C28_Witness ==
  /\ Succeeded
  /\ ret.result.analysis_summary
       = [total_issues |-> 13, critical_issues |-> 7, warnings |-> 0, suggestions |-> 6]
  /\ Len(ret.result.issues) = 13
  /\ Cardinality(OfSeverity(ret.result, "critical")) = 7
  /\ Cardinality(OfSeverity(ret.result, "suggestion")) = 6

\* C29: a result returned by analyze_file reads, after any later
\* analyze_file calls on the same engine, exactly as it read when it was
\* returned: issues, metrics, summary and score.
C29_ResultsAreSnapshots ==
  \A n \in 1..Len(seen.held) : Read(seen.held[n]) = seen.taken[n]

\* a successful result with issues is held while a later call has emptied
\* the accumulators and filled them with the findings of another file
C29_Witness ==
  /\ Len(seen.held) >= 2
  /\ ~IsError(seen.taken[1])
  /\ seen.taken[1].issues # <<>>
  /\ Succeeded
  /\ ret.result = seen.taken[Len(seen.taken)]
  /\ issues # seen.taken[1].issues
  /\ function_metrics # seen.taken[1].function_metrics
  /\ Read(seen.held[1]).issues = seen.taken[1].issues
  /\ Read(seen.held[1]).analysis_summary.total_issues = Len(seen.taken[1].issues)


\* the five templates of a list of descriptions that is not empty
TemplatedTypes == {"feat", "fix", "test", "docs", "refactor"}

\* C30: the generate_commit_message tool never returns the fallback
\* 'chore: minor updates': the split of its text has at least one
\* description, and it returns one of the five templated messages with a
\* count of at least 1; the engine method returns the fallback exactly for
\* the empty list.
C30_ToolNeverFallsBack ==
  /\ ret.op = "generate_commit_message"
       => /\ Len(ret.file_changes) >= 1
          /\ ret.result # GenerateCommitMessage(<<>>)
          /\ ret.result.type \in TemplatedTypes
          /\ ret.result.files >= 1
  /\ ret.op = "DevAcceleratorEngine.generate_commit_message"
       => (ret.result = GenerateCommitMessage(<<>>) <=> ret.file_changes = <<>>)

\* the tool is called with the empty text: one empty description, and the
\* refactor template for 1 file
C30_Witness ==
  /\ ret.op = "generate_commit_message"
  /\ ret.file_changes = <<DescEmpty>>
  /\ ret.result = [type |-> "refactor", files |-> 1]

====
